---- MODULE Spec2Model ----
(***************************************************************************)
(* Model of the solver interface life cycle of preCICE                    *)
(* (precice::impl::SolverInterfaceImpl) together with the time, window and *)
(* action state of its coupling scheme (cplscheme::BaseCouplingScheme).    *)
(*                                                                         *)
(* One participant is modelled; what the coupling partner contributes to   *)
(* an exchange (the convergence verdict of an implicit iteration, the      *)
(* received values) is an input of the action that performs the exchange.  *)
(*                                                                         *)
(* Time is counted in units of eps = 10^-validDigits, so that the          *)
(* tolerance of the time comparisons is one unit (Eps).                    *)
(* The logging counters _totalIterations and _numberAdvanceCalls do not    *)
(* influence any decision of the code and are left out.                    *)
(***************************************************************************)
EXTENDS Integers, Sequences, FiniteSets, TLC

----------------------------------------------------------------------------
(* Bounds of the model *)

\* largest number of vertices a mesh is given
MaxVertices == 1
\* data values written by the solver are 0..MaxValue
MaxValue == 0
\* configured <time-window-size value=.../>, in units of Eps
TimeWindowSize == 3
\* configured <max-time value=.../>, in units of Eps
MaxTime == 6
\* configured <max-time-windows value=.../>
MaxTimeWindows == 1
\* configured <max-iterations value=.../> of an implicit scheme
MaxIterations == 2
\* largest time step size a solver passes to advance
MaxDt == 5
\* advance is not called any more once this much time is computed in a window
MaxComputedTime == 6
\* finalize is not called any more after this many runs of its body
MaxFinalizeCalls == 1
\* two coupled participants: the number of time windows of the simulation
SerialTimeWindows == 3
\* two coupled participants: data values written by a solver are 0..MaxWritten
MaxWritten == 1
\* two coupled participants: the number of time windows of an implicit scheme
ImplicitTimeWindows == 1
\* two coupled participants: a time window is not overrun beyond this
SerialComputedTime == 4
\* meshes: setMeshVertices is called with at most this many positions
MaxSetVertices == 2
\* meshes: no vertex is added once a mesh holds this many
MaxMeshVertices == 3
\* measuring participant: the number of convergence measures configured
MaxMeasures == 2
\* measuring participant: configured max-iterations are 1..MeasureIterations
MeasureIterations == 3
\* measuring participant: configured <max-time-windows value=.../>
MeasureTimeWindows == 2

\* ranks of a participant: a participant runs on 1..MaxRanks ranks
MaxRanks == 3
\* ranks of a participant: configured <max-time-windows value=.../>
ParallelTimeWindows == 1
\* ranks of a participant: each rank passes the checks of advance at most so often
MaxRankAdvances == 2

\* two participants connecting: each uses the meshes 1..MaxUsedMeshes; a
\* mesh is named by its rank in the order of the mesh names
MaxUsedMeshes == 2

\* coupling data of a scheme: the exchanges reference the data ids 1..MaxData
MaxData == 2

----------------------------------------------------------------------------
(* Program constants *)

UNDEFINED_TIME == -1
UNDEFINED_TIME_WINDOWS == -1
UNDEFINED_TIME_WINDOW_SIZE == -1
UNDEFINED_MAX_ITERATIONS == -1
\* _eps = 10^-validDigits, the unit of time of the model
Eps == 1
\* std::numeric_limits<double>::max()
DOUBLE_MAX == 1000

Meshes == {1, 2}
\* the mesh the written data lives on, and the mesh the read data lives on
WriteMesh == 1
ReadMesh == 2

Values == 0 .. MaxValue
DtValues == (0 - 1) .. MaxDt

InitializeData == "InitializeData"
WriteCheckpoint == "WriteCheckpoint"
ReadCheckpoint == "ReadCheckpoint"
Actions == {InitializeData, WriteCheckpoint, ReadCheckpoint}

Constructed == "Constructed"
Initialized == "Initialized"
Finalized == "Finalized"
State == {Constructed, Initialized, Finalized}

Explicit == "Explicit"
Implicit == "Implicit"

----------------------------------------------------------------------------
(* math::equals, math::greater, math::greaterEquals with a tolerance.       *)
(* The default tolerance (1e-14) is below one unit: it is 0 here.          *)

equals(a, b, tol) == (a - b <= tol) /\ (b - a <= tol)
greater(a, b, tol) == a - b > tol
greaterEquals(a, b, tol) == a - b >= 0 - tol

----------------------------------------------------------------------------
(* cplscheme::BaseCouplingScheme.  A scheme is a record c; every method    *)
(* that changes the scheme is an operator from the old to the new record.  *)

\* the scheme as its constructor and the configuration leave it
\* (_timeWindows(1), _iterations(1) whatever the coupling mode;
\* determineInitialSend requires InitializeData when some sent data is
\* configured initialize="true")
BaseCouplingScheme(mode, maxTime, maxTimeWindows, timeWindowSize, first, sendsInit) ==
  [couplingMode |-> mode,
   maxTime |-> maxTime,
   maxTimeWindows |-> maxTimeWindows,
   timeWindowSize |-> timeWindowSize,
   maxIterations |-> IF mode = Implicit THEN MaxIterations ELSE UNDEFINED_MAX_ITERATIONS,
   doesFirstStep |-> first,
   sendsInitializedData |-> sendsInit,
   receivesInitializedData |-> FALSE,
   time |-> 0,
   timeWindows |-> 1,
   computedTimeWindowPart |-> 0,
   iterations |-> 1,
   hasConverged |-> FALSE,
   isTimeWindowComplete |-> FALSE,
   hasDataBeenReceived |-> FALSE,
   receivedOnce |-> TRUE,
   isInitialized |-> FALSE,
   requiredActions |-> IF sendsInit THEN {InitializeData} ELSE {},
   fulfilledActions |-> {}]

isImplicitCouplingScheme(c) == c.couplingMode = Implicit

hasTimeWindowSize(c) == ~equals(c.timeWindowSize, UNDEFINED_TIME_WINDOW_SIZE, 0)

getNextTimeStepMaxSize(c) ==
  IF hasTimeWindowSize(c)
    THEN c.timeWindowSize - c.computedTimeWindowPart
    ELSE IF equals(c.maxTime, UNDEFINED_TIME, 0)
           THEN DOUBLE_MAX
           ELSE c.maxTime - c.time

getThisTimeWindowRemainder(c) ==
  IF hasTimeWindowSize(c) THEN getNextTimeStepMaxSize(c) ELSE 0

\* isCouplingOngoing that ends the coupling one time window early
isCouplingOngoingStrict(c) ==
  LET timeLeft == greater(c.maxTime, c.time, Eps) \/ equals(c.maxTime, UNDEFINED_TIME, 0)
      timestepsLeft == (c.maxTimeWindows > c.timeWindows)
                         \/ (c.maxTimeWindows = UNDEFINED_TIME_WINDOWS)
  IN  timeLeft /\ timestepsLeft

isCouplingOngoing(c) ==
  LET timeLeft == greater(c.maxTime, c.time, Eps) \/ equals(c.maxTime, UNDEFINED_TIME, 0)
      timestepsLeft == (c.maxTimeWindows >= c.timeWindows)
                         \/ (c.maxTimeWindows = UNDEFINED_TIME_WINDOWS)
  IN  timeLeft /\ timestepsLeft

reachedEndOfTimeWindow(c) ==
  equals(getNextTimeStepMaxSize(c), 0, Eps) \/ ~hasTimeWindowSize(c)

isActionRequired(c, action) == action \in c.requiredActions

isActionFulfilled(c, action) == action \in c.fulfilledActions

\* faulty variant of markActionFulfilled: the action is not recorded
markNothingFulfilled(c, action) == c

markActionFulfilled(c, action) ==
  [c EXCEPT !.fulfilledActions = @ \cup {action}]

\* faulty variant of requireAction: the action is not recorded
requireNothing(c, action) == c

requireAction(c, action) ==
  [c EXCEPT !.requiredActions = @ \cup {action}]

\* faulty variant of addComputedTime: the computed part of the window is
\* overwritten instead of accumulated
addComputedTimeAnew(c, timeToAdd) ==
  [c EXCEPT !.computedTimeWindowPart = timeToAdd,
            !.time = @ + timeToAdd]

\* faulty variant of addComputedTime: _time is left as it is
addComputedPartOnly(c, timeToAdd) ==
  [c EXCEPT !.computedTimeWindowPart = @ + timeToAdd]

\* the time is added before its validity is checked
addComputedTime(c, timeToAdd) ==
  [c EXCEPT !.computedTimeWindowPart = @ + timeToAdd,
            !.time = @ + timeToAdd]

\* faulty variant of validComputedTime: the comparison has no tolerance
validComputedTimeExact(c) == greaterEquals(getNextTimeStepMaxSize(c), 0, 0)

\* the check of addComputedTime, on the scheme after the addition
validComputedTime(c) == greaterEquals(getNextTimeStepMaxSize(c), 0, Eps)

\* faulty variant of missingActions: nothing is reported
missingNothing(c) == {}

\* the actions checkCompletenessRequiredActions reports as missing
missingActions(c) == c.requiredActions \ c.fulfilledActions

\* faulty variant of checkCompletenessRequiredActions: the sets are not cleared
checkCompletenessKeepsActions(c) == c

\* checkCompletenessRequiredActions when nothing is missing
checkCompletenessRequiredActions(c) ==
  [c EXCEPT !.requiredActions = {}, !.fulfilledActions = {}]

\* faulty variant of checkDataHasBeenReceived: the flag is not set
checkDataHasBeenReceivedNot(c) == c

\* receivedOnce records the assertion that _hasDataBeenReceived is not yet set
checkDataHasBeenReceived(c) ==
  [c EXCEPT !.receivedOnce = @ /\ ~c.hasDataBeenReceived, !.hasDataBeenReceived = TRUE]

\* faulty variant of doImplicitStep: the verdict is never forced
doImplicitStepUnforced(c, measured) == [c EXCEPT !.hasConverged = measured]

\* the verdict of one implicit iteration: the measured (or received) one,
\* forced to true in the iteration in which _iterations = _maxIterations
doImplicitStep(c, measured) ==
  [c EXCEPT !.hasConverged = IF c.iterations = c.maxIterations THEN TRUE ELSE measured]

\* the exchange of a window end in a serial scheme; `measured` is what the
\* convergence measures of the second participant yield in this iteration
exchangeDataAndAccelerate(c, measured) ==
  IF c.doesFirstStep
    THEN LET c1 == IF isImplicitCouplingScheme(c) THEN doImplicitStep(c, measured) ELSE c
         IN  checkDataHasBeenReceived(c1)
    ELSE LET c1 == IF isImplicitCouplingScheme(c) THEN doImplicitStep(c, measured) ELSE c
         IN  IF isCouplingOngoing(c1) \/ (isImplicitCouplingScheme(c1) /\ ~c1.hasConverged)
               THEN checkDataHasBeenReceived(c1)
               ELSE c1

\* initialize(startTime = 0, startTimeWindow = 1), without the exchange
initializeScheme(c) ==
  LET c1 == [c EXCEPT !.time = 0, !.timeWindows = 1, !.hasDataBeenReceived = FALSE]
      c2 == IF isImplicitCouplingScheme(c1) THEN requireAction(c1, WriteCheckpoint) ELSE c1
      c3 == IF c2.receivesInitializedData THEN checkDataHasBeenReceived(c2) ELSE c2
  IN  [c3 EXCEPT !.isInitialized = TRUE]

\* receiveResultOfFirstAdvance with SerialCouplingScheme::performReceiveOfFirstAdvance
receiveResultOfFirstAdvance(c) ==
  LET c1 == [c EXCEPT !.hasDataBeenReceived = FALSE]
  IN  IF c1.doesFirstStep THEN c1 ELSE checkDataHasBeenReceived(c1)

\* firstExchange after its completeness check passed
\* faulty variant of firstExchange: the end of a window counts two windows
firstExchangeSkipsWindow(c) ==
  LET c1 == [checkCompletenessRequiredActions(c) EXCEPT
               !.hasDataBeenReceived = FALSE, !.isTimeWindowComplete = FALSE]
  IN  IF reachedEndOfTimeWindow(c1)
        THEN [c1 EXCEPT !.timeWindows = @ + 2]
        ELSE c1

\* faulty variant of firstExchange: _isTimeWindowComplete is not reset
firstExchangeKeepsComplete(c) ==
  LET c1 == [checkCompletenessRequiredActions(c) EXCEPT !.hasDataBeenReceived = FALSE]
  IN  IF reachedEndOfTimeWindow(c1)
        THEN [c1 EXCEPT !.timeWindows = @ + 1]
        ELSE c1

\* faulty variant of firstExchange: _hasDataBeenReceived is not reset
firstExchangeKeepsReceived(c) ==
  LET c1 == [checkCompletenessRequiredActions(c) EXCEPT !.isTimeWindowComplete = FALSE]
  IN  IF reachedEndOfTimeWindow(c1)
        THEN [c1 EXCEPT !.timeWindows = @ + 1]
        ELSE c1

firstExchange(c) ==
  LET c1 == [checkCompletenessRequiredActions(c) EXCEPT
               !.hasDataBeenReceived = FALSE, !.isTimeWindowComplete = FALSE]
  IN  IF reachedEndOfTimeWindow(c1)
        THEN [c1 EXCEPT !.timeWindows = @ + 1]
        ELSE c1

\* faulty variant of secondExchange: _iterations is not increased
secondExchangeSameIteration(c, measured) ==
  LET c0 == checkCompletenessRequiredActions(c)
  IN  IF ~reachedEndOfTimeWindow(c0)
        THEN c0
        ELSE LET c1 == exchangeDataAndAccelerate(c0, measured)
                 c2 == IF isImplicitCouplingScheme(c1)
                         THEN IF ~c1.hasConverged
                                THEN [requireAction(c1, ReadCheckpoint) EXCEPT
                                        !.time = @ - c1.computedTimeWindowPart,
                                        !.timeWindows = @ - 1]
                                ELSE LET c3 == [c1 EXCEPT !.isTimeWindowComplete = TRUE,
                                                          !.iterations = 1]
                                     IN  IF isCouplingOngoing(c3)
                                           THEN requireAction(c3, WriteCheckpoint)
                                           ELSE c3
                         ELSE [c1 EXCEPT !.isTimeWindowComplete = TRUE]
             IN  [c2 EXCEPT !.computedTimeWindowPart = 0]

\* secondExchange after its completeness check passed
\* faulty variant of secondExchange: the window counter is not taken back
secondExchangeKeepsWindow(c, measured) ==
  LET c0 == checkCompletenessRequiredActions(c)
  IN  IF ~reachedEndOfTimeWindow(c0)
        THEN c0
        ELSE LET c1 == exchangeDataAndAccelerate(c0, measured)
                 c2 == IF isImplicitCouplingScheme(c1)
                         THEN IF ~c1.hasConverged
                                THEN [requireAction(c1, ReadCheckpoint) EXCEPT
                                        !.time = @ - c1.computedTimeWindowPart,
                                        !.iterations = @ + 1]
                                ELSE LET c3 == [c1 EXCEPT !.isTimeWindowComplete = TRUE,
                                                          !.iterations = 1]
                                     IN  IF isCouplingOngoing(c3)
                                           THEN requireAction(c3, WriteCheckpoint)
                                           ELSE c3
                         ELSE [c1 EXCEPT !.isTimeWindowComplete = TRUE]
             IN  [c2 EXCEPT !.computedTimeWindowPart = 0]

secondExchange(c, measured) ==
  LET c0 == checkCompletenessRequiredActions(c)
  IN  IF ~reachedEndOfTimeWindow(c0)
        THEN c0
        ELSE LET c1 == exchangeDataAndAccelerate(c0, measured)
                 c2 == IF isImplicitCouplingScheme(c1)
                         THEN IF ~c1.hasConverged
                                THEN [requireAction(c1, ReadCheckpoint) EXCEPT
                                        !.time = @ - c1.computedTimeWindowPart,
                                        !.timeWindows = @ - 1,
                                        !.iterations = @ + 1]
                                ELSE LET c3 == [c1 EXCEPT !.isTimeWindowComplete = TRUE,
                                                          !.iterations = 1]
                                     IN  IF isCouplingOngoing(c3)
                                           THEN requireAction(c3, WriteCheckpoint)
                                           ELSE c3
                         ELSE [c1 EXCEPT !.isTimeWindowComplete = TRUE]
             IN  [c2 EXCEPT !.computedTimeWindowPart = 0]

----------------------------------------------------------------------------
(* precice::impl::SolverInterfaceImpl *)

VARIABLES
  state,                \* _state
  meshLock,             \* _meshLock: mesh -> locked
  vertexCount,          \* mesh -> mesh->vertices().size()
  writeValues,          \* values() of the written data, one entry per vertex of WriteMesh
  waveform,             \* the sample the read data's waveform returns; <<>> before initializeWaveform
  accessRegionDefined,  \* _accessRegionDefined
  allowsExperimental,   \* _allowsExperimental
  hasAccessor,          \* _accessor and _couplingScheme hold an object (finalize resets both)
  cpl,                  \* *_couplingScheme
  destroyed,            \* the destructor ran
  last,                 \* the last call: its argument, the _state it was made in,
                        \* its outcome and its return value
  hist                  \* what happened so far (observation only, read by no action)

\* two participants coupled by a serial scheme (specification SerialSpec)
VARIABLES
  scheme,               \* participant -> *_couplingScheme of its interface
  m2n,                  \* receiving participant -> channel -> messages in flight
  solver,               \* participant -> position of its solver and its data buffers
  seen                  \* what was observed so far (observation only, read by no action)

\* parts of the program considered on their own (specifications MeshSpec,
\* ConvergenceSpec, ParallelSpec, ConnectionSpec, DataSpec)
VARIABLES
  mesh,                 \* the provided meshes: their vertices and locks, the last call
  measuring,            \* the implicit scheme of the measuring participant
  intra,                \* the ranks of one participant inside advance
  conn,                 \* two participants inside initialize and finalize
  couplingData          \* the coupling data of one scheme during its configuration

interfaceVars == <<state, meshLock, vertexCount, writeValues, waveform, accessRegionDefined,
                   allowsExperimental, hasAccessor, cpl, destroyed, last, hist>>
serialVars == <<scheme, m2n, solver, seen>>
partVars == <<mesh, measuring, intra, conn, couplingData>>
vars == <<state, meshLock, vertexCount, writeValues, waveform, accessRegionDefined,
          allowsExperimental, hasAccessor, cpl, destroyed, last, hist,
          scheme, m2n, solver, seen, mesh, measuring, intra, conn,
          couplingData>>

\* outcomes of a call: it ran, it failed a PRECICE_CHECK (one name per
\* message), or it dereferenced a reset pointer
OK == "ok"
ErrFinalized == "error: cannot be called after finalize()"
ErrNotInitialized == "error: initialize() has to be called before"
ErrNotConstructed == "error: has to be called before initialize()"
ErrOnce == "error: may only be called once"
ErrInitialData == "error: initial data has to be written before initialize()"
ErrNotOngoing == "error: isCouplingOngoing() returns false"
ErrDtZero == "error: timestep size of 0"
ErrDtNegative == "error: negative timestep size"
ErrOverrun == "error: time step size exceeds the maximum allowed time step size"
ErrActions == "error: required actions are not fulfilled"
ErrLocked == "error: attempted to modify a locked mesh"
ErrExperimental == "error: experimental API is not enabled"
ErrIndex == "error: invalid vertex ID"
ErrReadTime == "error: cannot sample data outside of the current time window"
ErrRelaxation == "error: waveform relaxation is not allowed"
ErrBoundingBox == "error: bounding box is ill defined"
UBCrash == "undefined behaviour: crash"
UBGarbage == "undefined behaviour: returns garbage"

Errors == {ErrFinalized, ErrNotInitialized, ErrNotConstructed, ErrOnce, ErrInitialData,
           ErrNotOngoing, ErrDtZero, ErrDtNegative, ErrOverrun, ErrActions, ErrLocked,
           ErrExperimental, ErrIndex, ErrReadTime, ErrRelaxation, ErrBoundingBox}
Undefined == {UBCrash, UBGarbage}

Bool(b) == IF b THEN 1 ELSE 0
Zeros(n) == [i \in 1 .. n |-> 0]
NoArg == 0 - 1
NoReturn == 0 - 1

\* the call returns to the solver with `result`; the specification of the one
\* interface has no coupling partner
Returns(call, arg, result, ret) ==
  /\ last' = [call |-> call, arg |-> arg, from |-> state, result |-> result, ret |-> ret]
  /\ UNCHANGED serialVars
  /\ UNCHANGED partVars

\* PRECICE_CHECK failed: the call ends with the error, what it changed before stays
Fails(call, arg, error) == Returns(call, arg, error, NoReturn)

\* a call through the reset _accessor or _couplingScheme
DereferencesNull(call, arg) ==
  \E outcome \in Undefined : Returns(call, arg, outcome, NoReturn)

\* the scheme object a reset pointer no longer refers to
NoScheme == BaseCouplingScheme(Explicit, UNDEFINED_TIME, UNDEFINED_TIME_WINDOWS,
                               UNDEFINED_TIME_WINDOW_SIZE, FALSE, FALSE)

\* the configurations considered: an explicit and an implicit scheme, each for
\* the first participant (limited by <max-time>, without the experimental API)
\* and for the second participant (limited by <max-time-windows>, with
\* <solver-interface experimental="true">), with and without initial data to send
Configurations ==
  { [scheme |-> BaseCouplingScheme(Explicit, MaxTime, UNDEFINED_TIME_WINDOWS,
                                   TimeWindowSize, TRUE, FALSE),
     experimental |-> FALSE],
    [scheme |-> BaseCouplingScheme(Explicit, UNDEFINED_TIME, MaxTimeWindows,
                                   TimeWindowSize, FALSE, TRUE),
     experimental |-> TRUE],
    [scheme |-> BaseCouplingScheme(Implicit, MaxTime, UNDEFINED_TIME_WINDOWS,
                                   TimeWindowSize, TRUE, TRUE),
     experimental |-> FALSE],
    [scheme |-> BaseCouplingScheme(Implicit, UNDEFINED_TIME, MaxTimeWindows,
                                   TimeWindowSize, FALSE, FALSE),
     experimental |-> TRUE] }

\* the interface after its construction and configure()
Init ==
  /\ state = Constructed
  /\ meshLock = [m \in Meshes |-> FALSE]
  /\ vertexCount = [m \in Meshes |-> 0]
  /\ writeValues = <<>>
  /\ waveform = <<>>
  /\ accessRegionDefined = FALSE
  /\ \E config \in Configurations :
       /\ cpl = config.scheme
       /\ allowsExperimental = config.experimental
  /\ hasAccessor = TRUE
  /\ destroyed = FALSE
  /\ last = [call |-> "constructor", arg |-> NoArg, from |-> Constructed,
             result |-> OK, ret |-> NoReturn]
  /\ hist = [initializeRuns |-> 0, finalizeRuns |-> 0, finalizeCompleted |-> 0,
             resetSinceLock |-> {}, accessRegionMeshes |-> {},
             accessRegions |-> 0, overrun |-> FALSE, overrunAgain |-> FALSE,
             windowStart |-> 0, moved |-> [read |-> 0, global |-> 0],
             relocked |-> {}]
  /\ scheme = <<>>
  /\ m2n = <<>>
  /\ solver = <<>>
  /\ seen = <<>>
  /\ mesh = <<>>
  /\ measuring = <<>>
  /\ intra = <<>>
  /\ conn = <<>>
  /\ couplingData = <<>>

\* faulty variant of lockAll: the locks stay as they are
lockAllOmitted == meshLock

\* _meshLock.lockAll()
lockAll == [m \in Meshes |-> TRUE]

\* faulty variant of unlock: every mesh is unlocked
unlockAll(m) == [x \in Meshes |-> FALSE]

\* _meshLock.unlock(meshID)
unlock(m) == [meshLock EXCEPT ![m] = FALSE]

\* finalize() releases the participant and the coupling scheme
Released ==
  /\ hasAccessor' = FALSE
  /\ cpl' = NoScheme
  /\ vertexCount' = [m \in Meshes |-> 0]
  /\ writeValues' = <<>>
  /\ waveform' = <<>>

\* the values the coupling partner sends for the read data
ReceivedValues == [1 .. vertexCount[ReadMesh] -> Values]

\* a call that ends with `result` and changes nothing
Query(call, arg, result, ret) ==
  /\ Returns(call, arg, result, ret)
  /\ UNCHANGED <<state, meshLock, vertexCount, writeValues, waveform, accessRegionDefined,
                 allowsExperimental, hasAccessor, cpl, destroyed, hist>>

\* a call through the reset pointers that changes nothing (if it returns)
QueryThroughNull(call, arg) ==
  /\ DereferencesNull(call, arg)
  /\ UNCHANGED <<state, meshLock, vertexCount, writeValues, waveform, accessRegionDefined,
                 allowsExperimental, hasAccessor, cpl, destroyed, hist>>

\* faulty variant of initializeCheck: a second initialize() is let through
initializeCheckRepeatable ==
  IF state = Finalized THEN ErrFinalized
  ELSE IF isActionRequired(cpl, InitializeData) /\ ~isActionFulfilled(cpl, InitializeData)
    THEN ErrInitialData
  ELSE OK

\* the checks at the head of initialize()
initializeCheck ==
  IF state = Finalized THEN ErrFinalized
  ELSE IF state = Initialized THEN ErrOnce
  ELSE IF isActionRequired(cpl, InitializeData) /\ ~isActionFulfilled(cpl, InitializeData)
    THEN ErrInitialData
  ELSE OK

\* the number of moveToNextWindow() calls initialize() makes for each read
\* data context and for each global data context
initializeMoves == [read |-> 1, global |-> 1]

\* the number of moveToNextWindow() calls advance() makes for each read data
\* context and for each global data context, the scheme having advanced to c
advanceMoves(c) == [read |-> IF c.isTimeWindowComplete THEN 1 ELSE 0, global |-> 0]

\* double initialize()
initialize ==
  /\ ~destroyed
  /\ IF initializeCheck # OK
       THEN Query("initialize", NoArg, initializeCheck, NoReturn)
       ELSE \E received \in ReceivedValues :
              LET c == receiveResultOfFirstAdvance(initializeScheme(cpl))
              IN  /\ meshLock' = lockAll
                  /\ cpl' = c
                  /\ waveform' = IF c.hasDataBeenReceived
                                   THEN received
                                   ELSE Zeros(vertexCount[ReadMesh])
                  /\ writeValues' = Zeros(Len(writeValues))
                  /\ state' = Initialized
                  /\ hist' = [hist EXCEPT !.initializeRuns = @ + 1, !.resetSinceLock = {},
                                          !.windowStart = c.time,
                                          !.moved = initializeMoves]
                  /\ Returns("initialize", NoArg, OK, getNextTimeStepMaxSize(c))
                  /\ UNCHANGED <<vertexCount, accessRegionDefined, allowsExperimental,
                                 hasAccessor, destroyed>>

\* faulty variant of advanceCheck: isCouplingOngoing() is not consulted
advanceCheckPastEnd(dt) ==
  IF state = Constructed THEN ErrNotInitialized
  ELSE IF state = Finalized THEN ErrFinalized
  ELSE IF equals(dt, 0, 0) THEN ErrDtZero
  ELSE IF ~(dt > 0) THEN ErrDtNegative
  ELSE OK

\* the checks at the head of advance()
advanceCheck(dt) ==
  IF state = Constructed THEN ErrNotInitialized
  ELSE IF state = Finalized THEN ErrFinalized
  ELSE IF state # Initialized THEN ErrNotInitialized
  ELSE IF ~isCouplingOngoing(cpl) THEN ErrNotOngoing
  ELSE IF equals(dt, 0, 0) THEN ErrDtZero
  ELSE IF ~(dt > 0) THEN ErrDtNegative
  ELSE OK

\* advance() fails in the coupling scheme: the computed time stays added
advanceFails(dt, added, error) ==
  /\ cpl' = added
  /\ hist' = IF error = ErrOverrun
               THEN [hist EXCEPT !.overrun = TRUE, !.overrunAgain = hist.overrun]
               ELSE hist
  /\ Fails("advance", dt, error)
  /\ UNCHANGED <<state, meshLock, vertexCount, writeValues, waveform, accessRegionDefined,
                 allowsExperimental, hasAccessor, destroyed>>

\* double advance(double computedTimestepLength)
advance(dt) ==
  /\ ~destroyed
  /\ IF advanceCheck(dt) # OK
       THEN Query("advance", dt, advanceCheck(dt), NoReturn)
       ELSE LET added == addComputedTime(cpl, dt)
            IN  /\ added.computedTimeWindowPart <= MaxComputedTime
                /\ IF ~validComputedTime(added)
                     THEN advanceFails(dt, added, ErrOverrun)
                     ELSE IF missingActions(added) # {}
                     THEN advanceFails(dt, added, ErrActions)
                     ELSE \E measured \in BOOLEAN, received \in ReceivedValues :
                            LET c == secondExchange(firstExchange(added), measured)
                            IN  /\ cpl' = c
                                /\ waveform' = IF c.hasDataBeenReceived
                                                 THEN received
                                                 ELSE waveform
                                /\ writeValues' = Zeros(Len(writeValues))
                                /\ meshLock' = lockAll
                                /\ hist' = [hist EXCEPT
                                              !.resetSinceLock = {},
                                              !.relocked = {m \in Meshes : ~meshLock[m]},
                                              !.windowStart = IF c.isTimeWindowComplete
                                                                THEN c.time ELSE @,
                                              !.moved = advanceMoves(c)]
                                /\ Returns("advance", dt, OK, getNextTimeStepMaxSize(c))
                                /\ UNCHANGED <<state, vertexCount, accessRegionDefined,
                                               allowsExperimental, hasAccessor, destroyed>>

\* faulty variant of finalizeCheck: a second finalize() is let through
finalizeCheckRepeatable == OK

\* the check at the head of finalize()
finalizeCheck == IF state = Finalized THEN ErrOnce ELSE OK

\* finalize(), called by the solver or by the destructor
finalizeCalled(call) ==
  IF finalizeCheck # OK
    THEN /\ Fails(call, NoArg, finalizeCheck)
         /\ UNCHANGED <<state, meshLock, vertexCount, writeValues, waveform,
                        accessRegionDefined, allowsExperimental, hasAccessor, cpl, hist>>
    ELSE IF state = Initialized /\ missingActions(cpl) # {}
    THEN /\ Fails(call, NoArg, ErrActions)
         /\ hist' = [hist EXCEPT !.finalizeRuns = @ + 1]
         /\ UNCHANGED <<state, meshLock, vertexCount, writeValues, waveform,
                        accessRegionDefined, allowsExperimental, hasAccessor, cpl>>
    ELSE /\ Released
         /\ state' = Finalized
         /\ hist' = [hist EXCEPT !.finalizeRuns = @ + 1, !.finalizeCompleted = @ + 1]
         /\ Returns(call, NoArg, OK, NoReturn)
         /\ UNCHANGED <<meshLock, accessRegionDefined, allowsExperimental>>

\* void finalize()
finalize ==
  /\ ~destroyed
  /\ hist.finalizeRuns < MaxFinalizeCalls \/ state = Finalized
  /\ finalizeCalled("finalize")
  /\ UNCHANGED destroyed

\* faulty variant of destructorFinalizes: the destructor always finalizes
destructorFinalizesAlways == TRUE

\* the destructor's condition for calling finalize()
destructorFinalizes == state # Finalized

\* ~SolverInterfaceImpl()
Destructor ==
  /\ ~destroyed
  /\ destroyed' = TRUE
  /\ IF destructorFinalizes
       THEN finalizeCalled("destructor")
       ELSE /\ Returns("destructor", NoArg, OK, NoReturn)
            /\ UNCHANGED <<state, meshLock, vertexCount, writeValues, waveform,
                           accessRegionDefined, allowsExperimental, hasAccessor, cpl, hist>>

\* bool isCouplingOngoing() const
isCouplingOngoingCall ==
  /\ ~destroyed
  /\ IF state = Finalized
       THEN Query("isCouplingOngoing", NoArg, ErrFinalized, NoReturn)
       ELSE IF state # Initialized
       THEN Query("isCouplingOngoing", NoArg, ErrNotInitialized, NoReturn)
       ELSE Query("isCouplingOngoing", NoArg, OK, Bool(isCouplingOngoing(cpl)))

\* bool isTimeWindowComplete() const
isTimeWindowCompleteCall ==
  /\ ~destroyed
  /\ IF state = Constructed
       THEN Query("isTimeWindowComplete", NoArg, ErrNotInitialized, NoReturn)
       ELSE IF state = Finalized
       THEN Query("isTimeWindowComplete", NoArg, ErrFinalized, NoReturn)
       ELSE Query("isTimeWindowComplete", NoArg, OK, Bool(cpl.isTimeWindowComplete))

\* the common body of the three action queries
requiresAction(call, action) ==
  LET required == isActionRequired(cpl, action)
  IN  /\ cpl' = IF required THEN markActionFulfilled(cpl, action) ELSE cpl
      /\ Returns(call, NoArg, OK, Bool(required))
      /\ UNCHANGED <<state, meshLock, vertexCount, writeValues, waveform,
                     accessRegionDefined, allowsExperimental, hasAccessor, destroyed, hist>>

\* bool requiresInitialData()
requiresInitialData ==
  /\ ~destroyed
  /\ IF state # Constructed
       THEN Query("requiresInitialData", NoArg, ErrNotConstructed, NoReturn)
       ELSE requiresAction("requiresInitialData", InitializeData)

\* bool requiresWritingCheckpoint()
requiresWritingCheckpoint ==
  /\ ~destroyed
  /\ IF state # Initialized
       THEN Query("requiresWritingCheckpoint", NoArg, ErrNotInitialized, NoReturn)
       ELSE requiresAction("requiresWritingCheckpoint", WriteCheckpoint)

\* bool requiresReadingCheckpoint()
requiresReadingCheckpoint ==
  /\ ~destroyed
  /\ IF state # Initialized
       THEN Query("requiresReadingCheckpoint", NoArg, ErrNotInitialized, NoReturn)
       ELSE requiresAction("requiresReadingCheckpoint", ReadCheckpoint)

\* int getMeshVertexSize(MeshID meshID) const
getMeshVertexSize(m) ==
  /\ ~destroyed
  /\ IF state # Initialized /\ ~hasAccessor
       THEN QueryThroughNull("getMeshVertexSize", m)
       ELSE Query("getMeshVertexSize", m, OK, vertexCount[m])

\* PRECICE_EXPERIMENTAL_API()
requireExperimental == IF allowsExperimental THEN OK ELSE ErrExperimental

\* void resetMesh(MeshID meshID)
resetMesh(m) ==
  /\ ~destroyed
  /\ IF requireExperimental # OK
       THEN Query("resetMesh", m, requireExperimental, NoReturn)
       ELSE IF ~hasAccessor
       THEN QueryThroughNull("resetMesh", m)
       ELSE /\ meshLock' = unlock(m)
            /\ vertexCount' = [vertexCount EXCEPT ![m] = 0]
            /\ writeValues' = IF m = WriteMesh THEN <<>> ELSE writeValues
            /\ hist' = [hist EXCEPT !.resetSinceLock = @ \cup {m}, !.relocked = @ \ {m}]
            /\ Returns("resetMesh", m, OK, NoReturn)
            /\ UNCHANGED <<state, waveform, accessRegionDefined, allowsExperimental,
                           hasAccessor, cpl, destroyed>>

\* PRECICE_REQUIRE_MESH_MODIFY(meshID)
requireMeshModify(m) == IF meshLock[m] THEN ErrLocked ELSE OK

\* int setMeshVertex(int meshID, const double *position)
setMeshVertex(m) ==
  /\ ~destroyed
  /\ IF requireMeshModify(m) # OK
       THEN Query("setMeshVertex", m, requireMeshModify(m), NoReturn)
       ELSE IF ~hasAccessor
       THEN QueryThroughNull("setMeshVertex", m)
       ELSE /\ vertexCount[m] < MaxVertices
            /\ vertexCount' = [vertexCount EXCEPT ![m] = @ + 1]
            /\ writeValues' = IF m = WriteMesh THEN Append(writeValues, 0) ELSE writeValues
            /\ Returns("setMeshVertex", m, OK, vertexCount[m])
            /\ UNCHANGED <<state, meshLock, waveform, accessRegionDefined,
                           allowsExperimental, hasAccessor, cpl, destroyed, hist>>

\* faulty variant of writeDataCheck: _state is not checked
writeDataCheckNever == OK

\* the check of _state at the head of the write...Data functions
writeDataCheck == IF state = Finalized THEN ErrFinalized ELSE OK

\* void writeScalarData(int dataID, int valueIndex, double value)
writeScalarData(valueIndex, value) ==
  /\ ~destroyed
  /\ IF writeDataCheck # OK
       THEN Query("writeScalarData", valueIndex, writeDataCheck, NoReturn)
       ELSE IF ~hasAccessor
       THEN QueryThroughNull("writeScalarData", valueIndex)
       ELSE IF ~(0 <= valueIndex /\ valueIndex < Len(writeValues))
       THEN Query("writeScalarData", valueIndex, ErrIndex, NoReturn)
       ELSE /\ writeValues' = [writeValues EXCEPT ![valueIndex + 1] = value]
            /\ Returns("writeScalarData", valueIndex, OK, NoReturn)
            /\ UNCHANGED <<state, meshLock, vertexCount, waveform, accessRegionDefined,
                           allowsExperimental, hasAccessor, cpl, destroyed, hist>>

\* the values sampleWaveformAt returns: the waveform holds entries only once
\* initialize() has initialized it
sampleWaveformAt == waveform

\* void readScalarDataImpl(int dataID, int valueIndex, double relativeReadTime,
\*                         double &value) const
readScalarDataImpl(call, valueIndex, relativeReadTime) ==
  IF state = Finalized
    THEN Query(call, valueIndex, ErrFinalized, NoReturn)
    ELSE IF ~hasAccessor
    THEN QueryThroughNull(call, valueIndex)
    ELSE IF ~(relativeReadTime <= getThisTimeWindowRemainder(cpl)) \/ ~(relativeReadTime >= 0)
    THEN Query(call, valueIndex, ErrReadTime, NoReturn)
    ELSE IF ~hasTimeWindowSize(cpl) /\ relativeReadTime # getThisTimeWindowRemainder(cpl)
    THEN Query(call, valueIndex, ErrRelaxation, NoReturn)
    ELSE IF ~(0 <= valueIndex /\ valueIndex < Len(sampleWaveformAt))
    THEN Query(call, valueIndex, ErrIndex, NoReturn)
    ELSE Query(call, valueIndex, OK, sampleWaveformAt[valueIndex + 1])

\* void readScalarData(int dataID, int valueIndex, double &value) const
readScalarData(valueIndex) ==
  /\ ~destroyed
  /\ IF ~hasAccessor
       THEN QueryThroughNull("readScalarData", valueIndex)
       ELSE readScalarDataImpl("readScalarData", valueIndex, getThisTimeWindowRemainder(cpl))

\* void readScalarData(int dataID, int valueIndex, double relativeReadTime,
\*                     double &value) const
readScalarDataAt(valueIndex, relativeReadTime) ==
  /\ ~destroyed
  /\ IF requireExperimental # OK
       THEN Query("readScalarDataAt", valueIndex, requireExperimental, NoReturn)
       ELSE readScalarDataImpl("readScalarDataAt", valueIndex, relativeReadTime)

\* faulty variant of setMeshAccessRegionCheck: _accessRegionDefined is not checked
setMeshAccessRegionCheckRepeatable ==
  IF requireExperimental # OK THEN requireExperimental
  ELSE IF state = Finalized THEN ErrFinalized
  ELSE IF state = Initialized THEN ErrNotConstructed
  ELSE OK

\* the checks at the head of setMeshAccessRegion()
setMeshAccessRegionCheck ==
  IF requireExperimental # OK THEN requireExperimental
  ELSE IF state = Finalized THEN ErrFinalized
  ELSE IF state = Initialized THEN ErrNotConstructed
  ELSE IF accessRegionDefined THEN ErrOnce
  ELSE OK

\* void setMeshAccessRegion(const int meshID, const double *boundingBox) const
setMeshAccessRegion(m, wellDefined) ==
  /\ ~destroyed
  /\ IF setMeshAccessRegionCheck # OK
       THEN Query("setMeshAccessRegion", m, setMeshAccessRegionCheck, NoReturn)
       ELSE IF ~wellDefined
       THEN Query("setMeshAccessRegion", m, ErrBoundingBox, NoReturn)
       ELSE /\ accessRegionDefined' = TRUE
            /\ hist' = [hist EXCEPT !.accessRegionMeshes = @ \cup {m},
                                    !.accessRegions = @ + 1]
            /\ Returns("setMeshAccessRegion", m, OK, NoReturn)
            /\ UNCHANGED <<state, meshLock, vertexCount, writeValues, waveform,
                           allowsExperimental, hasAccessor, cpl, destroyed>>

ValueIndices == 0 .. MaxVertices
\* relative read times: before the current time, at it, at the end of a full window
ReadTimes == {0 - 1, 0, TimeWindowSize}

Next ==
  \/ initialize
  \/ \E dt \in DtValues : advance(dt)
  \/ finalize
  \/ Destructor
  \/ isCouplingOngoingCall
  \/ isTimeWindowCompleteCall
  \/ requiresInitialData
  \/ requiresWritingCheckpoint
  \/ requiresReadingCheckpoint
  \/ \E m \in Meshes : getMeshVertexSize(m)
  \/ \E m \in Meshes : resetMesh(m)
  \/ \E m \in Meshes : setMeshVertex(m)
  \/ \E valueIndex \in ValueIndices, value \in Values : writeScalarData(valueIndex, value)
  \/ \E valueIndex \in ValueIndices : readScalarData(valueIndex)
  \/ \E valueIndex \in ValueIndices, t \in ReadTimes : readScalarDataAt(valueIndex, t)
  \/ \E m \in Meshes, wellDefined \in BOOLEAN : setMeshAccessRegion(m, wellDefined)

Spec == Init /\ [][Next]_vars

----------------------------------------------------------------------------
(* cplscheme::SerialCouplingScheme between two participants.  Each           *)
(* participant runs the calls of its solver in sequence; a call that has    *)
(* sent its data and waits for the partner is at position Exchanging.       *)
(* No data is configured initialize="true", so that                         *)
(* BiCouplingScheme::exchangeInitialData sends and receives nothing.        *)

FirstParticipant == "First"
SecondParticipant == "Second"
Participants == {FirstParticipant, SecondParticipant}
partner(p) == IF p = FirstParticipant THEN SecondParticipant ELSE FirstParticipant

FIXED_TIME_WINDOW_SIZE == "fixed"
FIRST_PARTICIPANT_SETS_TIME_WINDOW_SIZE == "first-participant"

\* the channels of an M2N: the primary connection, the distributed
\* connection of the coupling mesh, the one used with the mesh id -1
PrimaryChannel == "primary"
MeshChannel == "mesh"
GlobalChannel == "global"
Channels == {PrimaryChannel, MeshChannel, GlobalChannel}

WrittenValues == 0 .. MaxWritten
SerialDts == {1, TimeWindowSize}

\* position of a solver
Exchanging == "Exchanging"

\* the scheme of one participant after the constructor and the configuration:
\* `global` tells whether global data is exchanged from the first to the
\* second participant, `acceleration` whether _acceleration is set
SerialCouplingScheme(maxTime, maxTimeWindows, timeWindowSize, first, dtMethod, cplMode, global, acceleration) ==
  LET base == BaseCouplingScheme(cplMode, maxTime, maxTimeWindows, timeWindowSize,
                                 first, FALSE)
      firstSets == dtMethod = FIRST_PARTICIPANT_SETS_TIME_WINDOW_SIZE
  IN  (IF firstSets /\ first
         THEN [base EXCEPT !.timeWindowSize = UNDEFINED_TIME_WINDOW_SIZE]
         ELSE base)
      @@ [participantSetsTimeWindowSize |-> firstSets /\ first,
          participantReceivesTimeWindowSize |-> firstSets /\ ~first,
          sendsGlobalData |-> global /\ first,
          receivesGlobalData |-> global /\ ~first,
          hasAcceleration |-> acceleration /\ cplMode = Implicit]

getComputedTimeWindowPart(c) == c.computedTimeWindowPart

\* a message and the channel it travels on
Message(channel, kind, value) == [channel |-> channel, kind |-> kind, value |-> value]

\* m2n->send(...) of each of `messages`, in their order, to the participant `to`
RECURSIVE send(_, _, _)
send(net, to, messages) ==
  IF messages = <<>>
    THEN net
    ELSE send([net EXCEPT ![to][Head(messages).channel] = Append(@, Head(messages))],
              to, Tail(messages))

\* m2n->receive(...) of the participant `by`: it waits until a message has
\* arrived on the channel and takes the oldest one
arrived(net, by, channel) == Len(net[by][channel]) > 0
received(net, by, channel) == Head(net[by][channel])
receive(net, by, channel) == [net EXCEPT ![by][channel] = Tail(@)]

\* the serial schemes considered, one record per configuration file
SerialConfigurations ==
  { [cplMode |-> Explicit, dtMethod |-> FIXED_TIME_WINDOW_SIZE,
     maxTime |-> SerialTimeWindows * TimeWindowSize, maxTimeWindows |-> UNDEFINED_TIME_WINDOWS,
     timeWindowSize |-> TimeWindowSize, global |-> FALSE, acceleration |-> FALSE],
    [cplMode |-> Explicit, dtMethod |-> FIXED_TIME_WINDOW_SIZE,
     maxTime |-> UNDEFINED_TIME, maxTimeWindows |-> SerialTimeWindows,
     timeWindowSize |-> TimeWindowSize, global |-> TRUE, acceleration |-> FALSE],
    [cplMode |-> Explicit, dtMethod |-> FIRST_PARTICIPANT_SETS_TIME_WINDOW_SIZE,
     maxTime |-> UNDEFINED_TIME, maxTimeWindows |-> SerialTimeWindows,
     timeWindowSize |-> UNDEFINED_TIME_WINDOW_SIZE, global |-> FALSE, acceleration |-> FALSE],
    [cplMode |-> Implicit, dtMethod |-> FIRST_PARTICIPANT_SETS_TIME_WINDOW_SIZE,
     maxTime |-> UNDEFINED_TIME, maxTimeWindows |-> ImplicitTimeWindows,
     timeWindowSize |-> UNDEFINED_TIME_WINDOW_SIZE, global |-> FALSE, acceleration |-> FALSE],
    [cplMode |-> Implicit, dtMethod |-> FIXED_TIME_WINDOW_SIZE,
     maxTime |-> UNDEFINED_TIME, maxTimeWindows |-> ImplicitTimeWindows,
     timeWindowSize |-> TimeWindowSize, global |-> FALSE, acceleration |-> TRUE] }

\* observation of a call: who called what with which argument and outcome,
\* and for a read the position it sampled and the value it returned
Call(p, call, arg, result, normalized, value) ==
  [by |-> p, call |-> call, arg |-> arg, result |-> result,
   normalized |-> normalized, value |-> value]
NotSampled == <<0, 1>>

\* both interfaces after their construction and configure()
SerialInit ==
  /\ \E config \in SerialConfigurations :
       scheme = [p \in Participants |->
                  SerialCouplingScheme(config.maxTime, config.maxTimeWindows,
                                       config.timeWindowSize, p = FirstParticipant,
                                       config.dtMethod, config.cplMode,
                                       config.global, config.acceleration)]
  /\ m2n = [p \in Participants |-> [channel \in Channels |-> <<>>]]
  /\ solver = [p \in Participants |->
                [state |-> Constructed, written |-> 0, sample |-> 0, dt |-> 0]]
  /\ seen = [call |-> Call(FirstParticipant, "constructor", NoArg, OK, NotSampled, 0),
             sent |-> <<>>, expected |-> <<>>, received |-> <<>>,
             wrote |-> [p \in Participants |-> 0],
             partnerWrote |-> [p \in Participants |-> 0],
             fullSteps |-> [p \in Participants |-> 0],
             sizes |-> <<>>, windows |-> <<>>,
             verdicts |-> [p \in Participants |-> <<>>]]
  /\ state = Constructed
  /\ meshLock = [m \in Meshes |-> FALSE]
  /\ vertexCount = [m \in Meshes |-> 0]
  /\ writeValues = <<>>
  /\ waveform = <<>>
  /\ accessRegionDefined = FALSE
  /\ allowsExperimental = FALSE
  /\ hasAccessor = TRUE
  /\ cpl = NoScheme
  /\ destroyed = FALSE
  /\ last = [call |-> "constructor", arg |-> NoArg, from |-> Constructed,
             result |-> OK, ret |-> NoReturn]
  /\ hist = <<>>
  /\ mesh = <<>>
  /\ measuring = <<>>
  /\ intra = <<>>
  /\ conn = <<>>
  /\ couplingData = <<>>

\* the messages of the send calls of a scheme
sendTimeWindowSize(c) ==
  IF c.participantSetsTimeWindowSize
    THEN <<Message(PrimaryChannel, "timeWindowSize", getComputedTimeWindowPart(c))>>
    ELSE <<>>
sendData(c, values) == <<Message(MeshChannel, "data", values)>>
sendGlobalData(c) ==
  IF c.sendsGlobalData THEN <<Message(GlobalChannel, "globalData", 0)>> ELSE <<>>
sendConvergence(c) == <<Message(PrimaryChannel, "convergence", c.hasConverged)>>

\* a participant inside a receive step: its scheme, the messages in flight,
\* the values of its read data, the messages it has received in this step
Receiving(p) == [c |-> scheme[p], net |-> m2n, sample |-> solver[p].sample, got |-> <<>>]

\* receiveAndSetTimeWindowSize that does not set the size it receives
receiveAndDropTimeWindowSize(x, p) ==
  IF x.c.participantReceivesTimeWindowSize
    THEN [x EXCEPT !.net = receive(x.net, p, PrimaryChannel),
                   !.got = Append(@, received(x.net, p, PrimaryChannel))]
    ELSE x

receiveAndSetTimeWindowSize(x, p) ==
  IF x.c.participantReceivesTimeWindowSize
    THEN [x EXCEPT !.c.timeWindowSize = received(x.net, p, PrimaryChannel).value,
                   !.net = receive(x.net, p, PrimaryChannel),
                   !.got = Append(@, received(x.net, p, PrimaryChannel))]
    ELSE x

\* receiveData that leaves the values of the read data as they are
receiveDataElsewhere(x, p) ==
  [x EXCEPT !.net = receive(x.net, p, MeshChannel),
            !.got = Append(@, received(x.net, p, MeshChannel))]

receiveData(x, p) ==
  [x EXCEPT !.sample = received(x.net, p, MeshChannel).value,
            !.net = receive(x.net, p, MeshChannel),
            !.got = Append(@, received(x.net, p, MeshChannel))]

receiveGlobalData(x, p) ==
  IF x.c.receivesGlobalData
    THEN [x EXCEPT !.net = receive(x.net, p, GlobalChannel),
                   !.got = Append(@, received(x.net, p, GlobalChannel))]
    ELSE x

\* receiveConvergence that leaves _hasConverged as it is
receiveConvergenceDropped(x, p) ==
  IF isImplicitCouplingScheme(x.c)
    THEN [x EXCEPT !.net = receive(x.net, p, PrimaryChannel),
                   !.got = Append(@, received(x.net, p, PrimaryChannel))]
    ELSE x

receiveConvergence(x, p) ==
  IF isImplicitCouplingScheme(x.c)
    THEN [x EXCEPT !.c.hasConverged = received(x.net, p, PrimaryChannel).value,
                   !.net = receive(x.net, p, PrimaryChannel),
                   !.got = Append(@, received(x.net, p, PrimaryChannel))]
    ELSE x

\* the receive calls of SerialCouplingScheme::performReceiveOfFirstAdvance
performReceiveOfFirstAdvance(x, p) ==
  IF x.c.doesFirstStep THEN x ELSE receiveData(receiveAndSetTimeWindowSize(x, p), p)

\* the messages performReceiveOfFirstAdvance waits for have arrived
arrivedFirstAdvance(c, p) ==
  \/ c.doesFirstStep
  \/ /\ c.participantReceivesTimeWindowSize => arrived(m2n, p, PrimaryChannel)
     /\ arrived(m2n, p, MeshChannel)

\* the second participant receives at the end of its advance
secondReceives(c) ==
  isCouplingOngoing(c) \/ (isImplicitCouplingScheme(c) /\ ~c.hasConverged)

\* the receive calls of SerialCouplingScheme::exchangeDataAndAccelerate
receiveExchanged(x, p) ==
  IF x.c.doesFirstStep
    THEN receiveGlobalData(receiveData(receiveConvergence(x, p), p), p)
    ELSE IF secondReceives(x.c)
      THEN receiveGlobalData(receiveData(receiveAndSetTimeWindowSize(x, p), p), p)
      ELSE x

\* the messages the receive calls of exchangeDataAndAccelerate wait for have arrived
arrivedExchanged(c, p) ==
  IF c.doesFirstStep
    THEN /\ isImplicitCouplingScheme(c) => arrived(m2n, p, PrimaryChannel)
         /\ arrived(m2n, p, MeshChannel)
         /\ c.receivesGlobalData => arrived(m2n, p, GlobalChannel)
    ELSE secondReceives(c) =>
           /\ c.participantReceivesTimeWindowSize => arrived(m2n, p, PrimaryChannel)
           /\ arrived(m2n, p, MeshChannel)
           /\ c.receivesGlobalData => arrived(m2n, p, GlobalChannel)

\* observation: participant p has received the messages `got` in one receive step
Delivered(s, p, got) ==
  IF got = <<>>
    THEN s
    ELSE IF p = SecondParticipant
      THEN [s EXCEPT !.expected = Head(s.sent), !.sent = Tail(s.sent), !.received = got,
                     !.partnerWrote[p] = s.wrote[partner(p)]]
      ELSE [s EXCEPT !.partnerWrote[p] = s.wrote[partner(p)]]

\* observation: the call of participant p and its outcome
Called(s, p, call, arg, result) ==
  [s EXCEPT !.call = Call(p, call, arg, result, NotSampled, 0)]

\* observation: the number of advance calls participant p has completed if
\* each of them had a time step of the configured window size, else -1
FullSteps(s, p, dt) ==
  [s EXCEPT !.fullSteps[p] = IF @ >= 0 /\ dt = TimeWindowSize THEN @ + 1 ELSE 0 - 1]

\* observation: the verdict participant p acted on at the end of an
\* iteration of an implicit scheme, and what its scheme did with it
Acted(s, p, c) ==
  IF isImplicitCouplingScheme(c)
    THEN [s EXCEPT !.verdicts[p] =
            Append(@, [converged |-> c.hasConverged,
                       complete |-> c.isTimeWindowComplete,
                       rewound |-> ReadCheckpoint \in c.requiredActions,
                       time |-> c.time])]
    ELSE s

\* SolverInterfaceImpl::initialize of participant p; the second participant
\* waits in receiveResultOfFirstAdvance for the first advance of the first
initializeOf(p) ==
  LET c1 == initializeScheme(scheme[p])
      x == performReceiveOfFirstAdvance([Receiving(p) EXCEPT !.c = c1], p)
  IN  /\ solver[p].state = Constructed
      /\ arrivedFirstAdvance(c1, p)
      /\ scheme' = [scheme EXCEPT ![p] = [receiveResultOfFirstAdvance(c1) EXCEPT
                                            !.timeWindowSize = x.c.timeWindowSize]]
      /\ m2n' = x.net
      /\ solver' = [solver EXCEPT ![p] = [state |-> Initialized, written |-> 0,
                                          sample |-> x.sample, dt |-> 0]]
      /\ seen' = Called(Delivered(seen, p, x.got), p, "initialize", NoArg, OK)
      /\ UNCHANGED <<interfaceVars, partVars>>

\* write...Data of participant p
writeDataOf(p, value) ==
  /\ solver[p].state \in {Constructed, Initialized}
  /\ solver[p].written # value
  /\ solver' = [solver EXCEPT ![p].written = value]
  /\ UNCHANGED <<scheme, m2n, seen>>
  /\ UNCHANGED <<interfaceVars, partVars>>

\* requiresWritingCheckpoint, requiresReadingCheckpoint of participant p
requiresCheckpointOf(p, action) ==
  /\ solver[p].state = Initialized
  /\ action \in {WriteCheckpoint, ReadCheckpoint}
  /\ scheme' = [scheme EXCEPT ![p] = IF isActionRequired(@, action)
                                       THEN markActionFulfilled(@, action)
                                       ELSE @]
  /\ seen' = Called(seen, p, action, NoArg, OK)
  /\ UNCHANGED <<m2n, solver>>
  /\ UNCHANGED <<interfaceVars, partVars>>

\* advance of participant p fails: what the scheme had changed stays
advanceFailsOf(p, dt, c, error) ==
  /\ scheme' = [scheme EXCEPT ![p] = c]
  /\ seen' = Called(seen, p, "advance", dt, error)
  /\ UNCHANGED <<m2n, solver>>

\* advance of participant p inside a time window: nothing is exchanged
advanceInsideOf(p, dt, c) ==
  /\ scheme' = [scheme EXCEPT ![p] = secondExchange(c, FALSE)]
  /\ solver' = [solver EXCEPT ![p].written = 0]
  /\ seen' = FullSteps(Called(seen, p, "advance", dt, OK), p, dt)
  /\ UNCHANGED m2n

\* the first participant ends a window: sendTimeWindowSize, sendData,
\* sendGlobalData; it then waits for the second participant
advanceSendsFirst(p, dt, c) ==
  LET messages == sendTimeWindowSize(c) \o sendData(c, solver[p].written)
                    \o sendGlobalData(c)
  IN  /\ scheme' = [scheme EXCEPT ![p] = c]
      /\ m2n' = send(m2n, partner(p), messages)
      /\ solver' = [solver EXCEPT ![p].state = Exchanging, ![p].dt = dt]
      /\ seen' = [Called(seen, p, "advance", dt, Exchanging) EXCEPT
                    !.sent = Append(@, messages),
                    !.wrote[p] = solver[p].written,
                    !.sizes = IF c.participantSetsTimeWindowSize
                                THEN Append(@, <<dt, Head(messages).value>>)
                                ELSE @]

\* the second participant ends a window: doImplicitStep (with the verdict
\* `measured` of its convergence measures; the acceleration replaces the
\* values to send by `accelerated`), sendConvergence, sendData, sendGlobalData;
\* it then waits for the first participant if it receives
advanceSendsSecond(p, dt, c, measured, accelerated) ==
  LET c2 == IF isImplicitCouplingScheme(c) THEN doImplicitStep(c, measured) ELSE c
      values == IF isImplicitCouplingScheme(c2) /\ ~c2.hasConverged /\ c2.hasAcceleration
                  THEN accelerated
                  ELSE solver[p].written
      messages == (IF isImplicitCouplingScheme(c2) THEN sendConvergence(c2) ELSE <<>>)
                    \o sendData(c2, values) \o sendGlobalData(c2)
  IN  /\ scheme' = [scheme EXCEPT ![p] = c2]
      /\ m2n' = send(m2n, partner(p), messages)
      /\ solver' = [solver EXCEPT ![p].state = Exchanging, ![p].dt = dt]
      /\ seen' = [Called(seen, p, "advance", dt, Exchanging) EXCEPT
                    !.wrote[p] = solver[p].written,
                    !.windows = IF c2.participantReceivesTimeWindowSize
                                  THEN Append(@, c2.timeWindowSize)
                                  ELSE @]

\* SolverInterfaceImpl::advance of participant p up to the receive calls of
\* the exchange
advanceOf(p, dt) ==
  LET c == scheme[p]
      added == addComputedTime(c, dt)
      c1 == firstExchange(added)
  IN  /\ solver[p].state = Initialized
      /\ UNCHANGED <<interfaceVars, partVars>>
      /\ IF ~isCouplingOngoing(c)
           THEN advanceFailsOf(p, dt, c, ErrNotOngoing)
           ELSE /\ added.computedTimeWindowPart <= SerialComputedTime
                /\ IF ~validComputedTime(added)
                     THEN advanceFailsOf(p, dt, added, ErrOverrun)
                     ELSE IF missingActions(added) # {}
                     THEN advanceFailsOf(p, dt, added, ErrActions)
                     ELSE IF ~reachedEndOfTimeWindow(c1)
                     THEN advanceInsideOf(p, dt, c1)
                     ELSE IF c1.doesFirstStep
                     THEN advanceSendsFirst(p, dt, c1)
                     ELSE \E measured \in BOOLEAN, accelerated \in WrittenValues :
                            advanceSendsSecond(p, dt, c1, measured, accelerated)

\* SolverInterfaceImpl::advance of participant p from the receive calls of
\* the exchange to its return
advanceReturnsOf(p) ==
  LET c == scheme[p]
      x == receiveExchanged(Receiving(p), p)
      c3 == [secondExchange(c, x.c.hasConverged) EXCEPT
               !.timeWindowSize = x.c.timeWindowSize]
  IN  /\ solver[p].state = Exchanging
      /\ arrivedExchanged(c, p)
      /\ scheme' = [scheme EXCEPT ![p] = c3]
      /\ m2n' = x.net
      /\ solver' = [solver EXCEPT ![p] = [state |-> Initialized, written |-> 0,
                                          sample |-> x.sample, dt |-> 0]]
      /\ seen' = Acted(FullSteps(Called(Delivered(seen, p, x.got), p, "advance",
                                        solver[p].dt, OK),
                                 p, solver[p].dt),
                       p, c3)
      /\ UNCHANGED <<interfaceVars, partVars>>

\* the position in the window a read samples, as a fraction
normalizedReadTime(c, relativeReadTime) ==
  IF hasTimeWindowSize(c)
    THEN <<c.timeWindowSize - getThisTimeWindowRemainder(c) + relativeReadTime,
           c.timeWindowSize>>
    ELSE <<1, 1>>

\* readScalarDataImpl without checks on the relative read time
readDataCheckNever(c, relativeReadTime) == OK

\* the checks of readScalarDataImpl on the relative read time
readDataCheck(c, relativeReadTime) ==
  IF ~(relativeReadTime <= getThisTimeWindowRemainder(c)) THEN ErrReadTime
  ELSE IF ~(relativeReadTime >= 0) THEN ErrReadTime
  ELSE IF ~hasTimeWindowSize(c) /\ relativeReadTime # getThisTimeWindowRemainder(c)
    THEN ErrRelaxation
  ELSE OK

\* read...Data of participant p at a relative read time: at the end of the
\* window the waveform returns its latest sample, elsewhere it interpolates
readDataOf(p, relativeReadTime) ==
  LET c == scheme[p]
      n == normalizedReadTime(c, relativeReadTime)
  IN  /\ solver[p].state = Initialized
      /\ \E interpolated \in WrittenValues :
           seen' = [seen EXCEPT !.call =
                      IF readDataCheck(c, relativeReadTime) # OK
                        THEN Call(p, "readData", relativeReadTime,
                                  readDataCheck(c, relativeReadTime), NotSampled, 0)
                        ELSE Call(p, "readData", relativeReadTime, OK, n,
                                  IF n[1] = n[2] THEN solver[p].sample ELSE interpolated)]
      /\ UNCHANGED <<scheme, m2n, solver>>
      /\ UNCHANGED <<interfaceVars, partVars>>

SerialNext ==
  \/ \E p \in Participants : initializeOf(p)
  \/ \E p \in Participants, value \in WrittenValues : writeDataOf(p, value)
  \/ \E p \in Participants, action \in Actions : requiresCheckpointOf(p, action)
  \/ \E p \in Participants, dt \in SerialDts : advanceOf(p, dt)
  \/ \E p \in Participants : advanceReturnsOf(p)
  \/ \E p \in Participants, t \in ReadTimes : readDataOf(p, t)

SerialSpec == SerialInit /\ [][SerialNext]_vars

----------------------------------------------------------------------------
(* The vertices of the provided meshes: setMeshVertex, setMeshVertices,      *)
(* getMeshVertexSize, resetMesh and the lock that initialize sets.           *)
(* mesh.vertices[m] holds the ids of mesh->vertices() in their order.        *)

MeshSizes == 0 .. MaxSetVertices

\* Mesh::createVertex: the new vertex gets the next id of the mesh
createVertex(vertices) == Append(vertices, Len(vertices))

\* Vertex::getID of the vertex created last
getID(vertices) == vertices[Len(vertices)]

\* the loop of setMeshVertices that leaves out the last position
RECURSIVE createVerticesButLast(_, _)
createVerticesButLast(m, size) ==
  IF Len(m.ids) >= size - 1
    THEN m
    ELSE createVerticesButLast([vertices |-> createVertex(m.vertices),
                                ids |-> Append(m.ids, getID(createVertex(m.vertices)))], size)

\* the loop of setMeshVertices: ids[i] = mesh->createVertex(current).getID()
RECURSIVE createVertices(_, _)
createVertices(m, size) ==
  IF Len(m.ids) >= size
    THEN m
    ELSE createVertices([vertices |-> createVertex(m.vertices),
                         ids |-> Append(m.ids, getID(createVertex(m.vertices)))], size)

\* observation of a call on a mesh
MeshCall(call, m, size, oldSize, ids, result, ret) ==
  [call |-> call, mesh |-> m, size |-> size, oldSize |-> oldSize, ids |-> ids,
   result |-> result, ret |-> ret]

\* the meshes after configure(): no vertices, not locked
MeshInit ==
  /\ mesh = [vertices |-> [m \in Meshes |-> <<>>], locked |-> [m \in Meshes |-> FALSE],
             call |-> MeshCall("configure", 0, 0, 0, <<>>, OK, NoReturn)]
  /\ measuring = <<>>
  /\ intra = <<>>
  /\ conn = <<>>
  /\ couplingData = <<>>
  /\ scheme = <<>>
  /\ m2n = <<>>
  /\ solver = <<>>
  /\ seen = <<>>
  /\ state = Constructed
  /\ meshLock = [m \in Meshes |-> FALSE]
  /\ vertexCount = [m \in Meshes |-> 0]
  /\ writeValues = <<>>
  /\ waveform = <<>>
  /\ accessRegionDefined = FALSE
  /\ allowsExperimental = FALSE
  /\ hasAccessor = TRUE
  /\ cpl = NoScheme
  /\ destroyed = FALSE
  /\ last = [call |-> "constructor", arg |-> NoArg, from |-> Constructed,
             result |-> OK, ret |-> NoReturn]
  /\ hist = <<>>

\* the variables the calls on a mesh leave alone
MeshFrame == UNCHANGED <<interfaceVars, serialVars, measuring, intra, conn, couplingData>>

\* void setMeshVertices(int meshID, int size, const double *positions, int *ids)
setMeshVertices(m, size) ==
  LET old == mesh.vertices[m]
      created == createVertices([vertices |-> old, ids |-> <<>>], size)
  IN  /\ MeshFrame
      /\ IF mesh.locked[m]
           THEN mesh' = [mesh EXCEPT !.call = MeshCall("setMeshVertices", m, size, Len(old),
                                                       <<>>, ErrLocked, NoReturn)]
           ELSE /\ Len(old) + size <= MaxMeshVertices
                /\ mesh' = [mesh EXCEPT !.vertices[m] = created.vertices,
                                        !.call = MeshCall("setMeshVertices", m, size,
                                                   Len(old), created.ids, OK, NoReturn)]

\* int setMeshVertex(int meshID, const double *position)
setMeshVertexOfMesh(m) ==
  LET old == mesh.vertices[m]
  IN  /\ MeshFrame
      /\ IF mesh.locked[m]
           THEN mesh' = [mesh EXCEPT !.call = MeshCall("setMeshVertex", m, 1, Len(old),
                                                       <<>>, ErrLocked, NoReturn)]
           ELSE /\ Len(old) + 1 <= MaxMeshVertices
                /\ mesh' = [mesh EXCEPT !.vertices[m] = createVertex(old),
                                        !.call = MeshCall("setMeshVertex", m, 1, Len(old),
                                                   <<getID(createVertex(old))>>, OK,
                                                   getID(createVertex(old)))]

\* int getMeshVertexSize(MeshID meshID) const
getMeshVertexSizeOfMesh(m) ==
  /\ MeshFrame
  /\ mesh' = [mesh EXCEPT !.call = MeshCall("getMeshVertexSize", m, 0, Len(mesh.vertices[m]),
                                            <<>>, OK, Len(mesh.vertices[m]))]

\* void resetMesh(MeshID meshID), the experimental API enabled
resetMeshOfMesh(m) ==
  /\ MeshFrame
  /\ mesh' = [mesh EXCEPT !.vertices[m] = <<>>, !.locked[m] = FALSE,
                          !.call = MeshCall("resetMesh", m, 0, Len(mesh.vertices[m]), <<>>,
                                            OK, NoReturn)]

\* initialize locks the meshes
lockAllOfMesh ==
  /\ MeshFrame
  /\ \E m \in Meshes : ~mesh.locked[m]
  /\ mesh' = [mesh EXCEPT !.locked = [m \in Meshes |-> TRUE],
                          !.call = MeshCall("initialize", 0, 0, 0, <<>>, OK, NoReturn)]

MeshNext ==
  \/ \E m \in Meshes, size \in MeshSizes : setMeshVertices(m, size)
  \/ \E m \in Meshes : setMeshVertexOfMesh(m)
  \/ \E m \in Meshes : getMeshVertexSizeOfMesh(m)
  \/ \E m \in Meshes : resetMeshOfMesh(m)
  \/ lockAllOfMesh

MeshSpec == MeshInit /\ [][MeshNext]_vars

----------------------------------------------------------------------------
(* The implicit scheme of the participant that measures the convergence     *)
(* (the second of a serial scheme): its convergence measures, the hooks of  *)
(* its acceleration, its iteration and window counters.  Every advance has  *)
(* the size of the time window.                                             *)

ErrStrict == "error: the strict convergence measure did not converge"

iterationsConverged == "iterationsConverged"
performAcceleration == "performAcceleration"

\* the convergence measures a configuration can hold: (suffices, strict) each
MeasureFlags == [suffices : BOOLEAN, strict : BOOLEAN]
MeasureLists == UNION {[1 .. n -> MeasureFlags] : n \in 1 .. MaxMeasures}

\* faulty variant of strictMayFail: a strict measure may fail in any iteration
strictMayFailAlways(c) == TRUE

\* the PRECICE_CHECK of measureConvergence on a strict measure that failed
strictMayFail(c) == c.iterations < c.maxIterations

\* the loop of measureConvergence from measure i on; isConvergence[i] is what
\* measure i yields; acc holds allConverged, oneSuffices, oneStrict and the
\* outcome of the PRECICE_CHECK
RECURSIVE measureEach(_, _, _, _, _)
measureEach(c, measures, isConvergence, i, acc) ==
  IF i > Len(measures) \/ acc.result # OK
    THEN acc
    ELSE measureEach(c, measures, isConvergence, i + 1,
           IF ~isConvergence[i]
             THEN [acc EXCEPT !.allConverged = FALSE,
                              !.oneStrict = @ \/ measures[i].strict,
                              !.result = IF measures[i].strict /\ ~strictMayFail(c)
                                           THEN ErrStrict
                                           ELSE OK]
             ELSE IF measures[i].suffices
               THEN [acc EXCEPT !.oneSuffices = TRUE]
               ELSE acc)

\* faulty variant of convergence: strict does not overrule suffices
convergenceWithoutStrict(acc) == acc.allConverged \/ acc.oneSuffices

\* the return value of measureConvergence
convergence(acc) == acc.allConverged \/ (acc.oneSuffices /\ ~acc.oneStrict)

\* bool BaseCouplingScheme::measureConvergence(): the outcome of its check
\* and, if it passed, the value returned
measureConvergence(c, measures, isConvergence) ==
  LET acc == measureEach(c, measures, isConvergence, 1,
                         [allConverged |-> TRUE, oneSuffices |-> FALSE,
                          oneStrict |-> FALSE, result |-> OK])
  IN  [result |-> acc.result, converged |-> convergence(acc)]

\* faulty variant of accelerationHooks: the acceleration runs in every iteration
accelerationHooksEach(c, hasAcceleration) ==
  IF ~hasAcceleration THEN <<>>
  ELSE IF c.hasConverged THEN <<performAcceleration, iterationsConverged>>
  ELSE <<performAcceleration>>

\* the calls doImplicitStep makes on _acceleration, c being the scheme with
\* the verdict of the iteration
accelerationHooks(c, hasAcceleration) ==
  IF ~hasAcceleration THEN <<>>
  ELSE IF c.hasConverged THEN <<iterationsConverged>>
  ELSE <<performAcceleration>>

\* observation of a call of the measuring participant: the scheme it found,
\* what the measures yielded, the outcome, what measureConvergence returned,
\* the verdict of doImplicitStep, the hooks called
MeasuringCall(call, before, isConvergence, result, measured, converged, hooks) ==
  [call |-> call, before |-> before, isConvergence |-> isConvergence, result |-> result,
   measured |-> measured, converged |-> converged, hooks |-> hooks]

\* the measuring participant after initialize()
ConvergenceInit ==
  /\ \E maxIterations \in 1 .. MeasureIterations, measures \in MeasureLists,
        hasAcceleration \in BOOLEAN :
       measuring =
         [c |-> initializeScheme(
                  [BaseCouplingScheme(Implicit, UNDEFINED_TIME, MeasureTimeWindows,
                                      TimeWindowSize, FALSE, FALSE)
                     EXCEPT !.maxIterations = maxIterations]),
          measures |-> measures,
          hasAcceleration |-> hasAcceleration,
          call |-> MeasuringCall("initialize", <<>>, <<>>, OK, FALSE, FALSE, <<>>)]
  /\ mesh = <<>>
  /\ intra = <<>>
  /\ conn = <<>>
  /\ couplingData = <<>>
  /\ scheme = <<>>
  /\ m2n = <<>>
  /\ solver = <<>>
  /\ seen = <<>>
  /\ state = Constructed
  /\ meshLock = [m \in Meshes |-> FALSE]
  /\ vertexCount = [m \in Meshes |-> 0]
  /\ writeValues = <<>>
  /\ waveform = <<>>
  /\ accessRegionDefined = FALSE
  /\ allowsExperimental = FALSE
  /\ hasAccessor = TRUE
  /\ cpl = NoScheme
  /\ destroyed = FALSE
  /\ last = [call |-> "constructor", arg |-> NoArg, from |-> Constructed,
             result |-> OK, ret |-> NoReturn]
  /\ hist = <<>>

\* the variables the calls of the measuring participant leave alone
ConvergenceFrame == UNCHANGED <<interfaceVars, serialVars, mesh, intra, conn, couplingData>>

\* requiresWritingCheckpoint, requiresReadingCheckpoint
requiresCheckpointOfMeasuring(action) ==
  /\ ConvergenceFrame
  /\ action \in {WriteCheckpoint, ReadCheckpoint}
  /\ measuring' = [measuring EXCEPT
                     !.c = IF isActionRequired(@, action)
                             THEN markActionFulfilled(@, action)
                             ELSE @,
                     !.call = MeasuringCall(action, measuring.c, <<>>, OK, FALSE, FALSE,
                                            <<>>)]

\* advance(timeWindowSize); isConvergence[i] is what measure i yields
advanceOfMeasuring(isConvergence) ==
  LET c == measuring.c
      added == addComputedTime(c, TimeWindowSize)
      c1 == firstExchange(added)
      measured == measureConvergence(c1, measuring.measures, isConvergence)
      stepped == doImplicitStep(c1, measured.converged)
      Ends(result, after, converged, hooks) ==
        measuring' = [measuring EXCEPT
                        !.c = after,
                        !.call = MeasuringCall("advance", c, isConvergence, result,
                                               result = OK /\ measured.converged,
                                               converged, hooks)]
  IN  /\ ConvergenceFrame
      /\ DOMAIN isConvergence = DOMAIN measuring.measures
      /\ c.computedTimeWindowPart <= TimeWindowSize
      /\ IF ~isCouplingOngoing(c) THEN Ends(ErrNotOngoing, c, FALSE, <<>>)
         ELSE IF ~validComputedTime(added) THEN Ends(ErrOverrun, added, FALSE, <<>>)
         ELSE IF missingActions(added) # {} THEN Ends(ErrActions, added, FALSE, <<>>)
         ELSE IF measured.result # OK THEN Ends(measured.result, c1, FALSE, <<>>)
         ELSE Ends(OK, secondExchange(c1, measured.converged), stepped.hasConverged,
                   accelerationHooks(stepped, measuring.hasAcceleration))

ConvergenceNext ==
  \/ \E action \in Actions : requiresCheckpointOfMeasuring(action)
  \/ \E isConvergence \in UNION {[1 .. n -> BOOLEAN] : n \in 1 .. MaxMeasures} :
       advanceOfMeasuring(isConvergence)

ConvergenceSpec == ConvergenceInit /\ [][ConvergenceNext]_vars

----------------------------------------------------------------------------
(* A participant running on several ranks.  Rank 0 is the primary rank,   *)
(* every other rank is a secondary rank (utils::IntraComm); the            *)
(* intra-participant communication has one FIFO channel per secondary      *)
(* rank.  Every rank calls advance with a time step length of its own.    *)
(* intra.debug tells whether the library was built without NDEBUG.        *)

ErrAmbiguous == "error: ambiguous values for the timestep length"

syncTimestep == "syncTimestep"
idle == "idle"

isParallel(size) == size > 1
isPrimary(rank) == rank = 0
isSecondary(rank) == rank # 0
allSecondaryRanks(size) == 1 .. size - 1

\* the time step lengths a rank passes to advance
RankDts == 0 .. TimeWindowSize

\* faulty variant of syncTimestepCheck: no value is ambiguous
syncTimestepCheckNone(dt, computedTimestepLength) == TRUE

\* PRECICE_CHECK(math::equals(dt, computedTimestepLength), ...)
syncTimestepCheck(dt, computedTimestepLength) == equals(dt, computedTimestepLength, 0)

\* the checks at the head of advance(), on an initialized rank
advanceCheckOfRank(c, dt) ==
  IF ~isCouplingOngoing(c) THEN ErrNotOngoing
  ELSE IF equals(dt, 0, 0) THEN ErrDtZero
  ELSE IF ~(dt > 0) THEN ErrDtNegative
  ELSE OK

\* advance() from addComputedTime on: the coupling scheme of the rank
advanceSchemeOfRank(r, dt) ==
  LET added == addComputedTime(r.c, dt)
  IN  IF ~validComputedTime(added)
        THEN [r EXCEPT !.c = added, !.pc = idle,
                       !.calls[Len(r.calls)].result = ErrOverrun]
        ELSE [r EXCEPT !.c = secondExchange(firstExchange(added), TRUE), !.pc = idle,
                       !.calls[Len(r.calls)].result = OK]

ParallelInit ==
  /\ \E debug \in BOOLEAN, size \in 1 .. MaxRanks :
       intra =
         [debug |-> debug,
          size |-> size,
          rank |-> [rank \in 0 .. size - 1 |->
                      [c |-> initializeScheme(
                               BaseCouplingScheme(Explicit, UNDEFINED_TIME,
                                                  ParallelTimeWindows, TimeWindowSize,
                                                  FALSE, FALSE)),
                       pc |-> idle,
                       secondaryRank |-> 0,
                       head |-> OK,
                       calls |-> <<>>]],
          channel |-> [rank \in allSecondaryRanks(size) |-> <<>>]]
  /\ mesh = <<>>
  /\ measuring = <<>>
  /\ conn = <<>>
  /\ couplingData = <<>>
  /\ scheme = <<>>
  /\ m2n = <<>>
  /\ solver = <<>>
  /\ seen = <<>>
  /\ state = Constructed
  /\ meshLock = [m \in Meshes |-> FALSE]
  /\ vertexCount = [m \in Meshes |-> 0]
  /\ writeValues = <<>>
  /\ waveform = <<>>
  /\ accessRegionDefined = FALSE
  /\ allowsExperimental = FALSE
  /\ hasAccessor = TRUE
  /\ cpl = NoScheme
  /\ destroyed = FALSE
  /\ last = [call |-> "constructor", arg |-> NoArg, from |-> Constructed,
             result |-> OK, ret |-> NoReturn]
  /\ hist = <<>>

\* the variables the calls of the ranks leave alone
ParallelFrame == UNCHANGED <<interfaceVars, serialVars, mesh, measuring, conn, couplingData>>

\* advance(dt) on one rank fails in the checks at its head
advanceFailsOfRank(rank, dt) ==
  /\ rank \in DOMAIN intra.rank
  /\ intra.rank[rank].pc = idle
  /\ advanceCheckOfRank(intra.rank[rank].c, dt) # OK
  /\ intra' = [intra EXCEPT !.rank[rank].head = advanceCheckOfRank(intra.rank[rank].c, dt)]
  /\ ParallelFrame

\* advance(dt) on one rank, up to the first blocking receive of syncTimestep
advanceOfRank(rank, dt) ==
  /\ rank \in DOMAIN intra.rank
  /\ intra.rank[rank].pc = idle
  /\ advanceCheckOfRank(intra.rank[rank].c, dt) = OK
  /\ Len(intra.rank[rank].calls) < MaxRankAdvances
  /\ LET r == [intra.rank[rank] EXCEPT
                 !.head = OK,
                 !.calls = Append(@, [dt |-> dt, result |-> syncTimestep])]
     IN  IF intra.debug /\ isParallel(intra.size)
           THEN IF isSecondary(rank)
                  THEN intra' = [intra EXCEPT
                                   !.channel[rank] = Append(@, dt),
                                   !.rank[rank] = advanceSchemeOfRank(r, dt)]
                  ELSE intra' = [intra EXCEPT
                                   !.rank[rank] = [r EXCEPT !.pc = syncTimestep,
                                                            !.secondaryRank = 1]]
           ELSE intra' = [intra EXCEPT !.rank[rank] = advanceSchemeOfRank(r, dt)]
  /\ ParallelFrame

\* the primary rank receives the value of the next secondary rank, checks
\* it, and goes on to the next receive or to the rest of advance()
syncTimestepReceive ==
  /\ 0 \in DOMAIN intra.rank
  /\ intra.rank[0].pc = syncTimestep
  /\ LET r == intra.rank[0]
         secondaryRank == r.secondaryRank
         computedTimestepLength == r.calls[Len(r.calls)].dt
     IN  /\ intra.channel[secondaryRank] # <<>>
         /\ LET dt == Head(intra.channel[secondaryRank])
                taken == [intra EXCEPT !.channel[secondaryRank] = Tail(@)]
            IN  IF ~syncTimestepCheck(dt, computedTimestepLength)
                  THEN intra' = [taken EXCEPT
                                   !.rank[0].pc = idle,
                                   !.rank[0].calls[Len(r.calls)].result = ErrAmbiguous]
                  ELSE IF secondaryRank + 1 \in allSecondaryRanks(intra.size)
                  THEN intra' = [taken EXCEPT !.rank[0].secondaryRank = secondaryRank + 1]
                  ELSE intra' = [taken EXCEPT
                                   !.rank[0] = advanceSchemeOfRank(r, computedTimestepLength)]
  /\ ParallelFrame

ParallelNext ==
  \/ \E rank \in 0 .. MaxRanks - 1, dt \in RankDts : advanceFailsOfRank(rank, dt)
  \/ \E rank \in 0 .. MaxRanks - 1, dt \in RankDts : advanceOfRank(rank, dt)
  \/ syncTimestepReceive

ParallelSpec == ParallelInit /\ [][ParallelNext]_vars

----------------------------------------------------------------------------
(* Two participants inside initialize() and finalize(): the communication   *)
(* of the meshes in computePartitions, the exchange of the initial data in  *)
(* BaseCouplingScheme::initialize, and the handshake that closes the        *)
(* connection.  A send puts a message into the FIFO channel to the other    *)
(* participant, a receive waits until a message has arrived.                *)
(* conn.part[p] is one participant: pc is where it stands, contexts its     *)
(* usedMeshContexts() in their current order, next the index of the mesh    *)
(* its loop communicates next, got what it has received.                    *)

MeshNames == 1 .. MaxUsedMeshes

\* every order in which the configuration can list the used meshes
MeshOrders == {order \in [1 .. MaxUsedMeshes -> MeshNames] :
                 \A i, j \in 1 .. MaxUsedMeshes : order[i] = order[j] => i = j}

communicate == "communicate"
exchangeInitialData == "exchangeInitialData"
exchangedFirstHalf == "exchangeInitialData, second half"
closeCommunicationChannels == "closeCommunicationChannels"
ping == "ping"
pong == "pong"

\* faulty variant of sortByName: the contexts stay in the configured order
sortByNameOmitted(contexts) == contexts

\* std::sort of the contexts by lhs->mesh->getName() < rhs->mesh->getName()
RECURSIVE sortByName(_)
sortByName(contexts) ==
  IF contexts = <<>>
    THEN <<>>
    ELSE LET least == CHOOSE i \in DOMAIN contexts :
                        \A j \in DOMAIN contexts : ~(contexts[j] < contexts[i])
         IN  <<contexts[least]>>
               \o sortByName([i \in 1 .. Len(contexts) - 1 |->
                                IF i < least THEN contexts[i] ELSE contexts[i + 1]])

\* SelectSeq restricted to the contexts whose mesh is provided, or is not
providedOf(contexts, p, provides, provided) ==
  SelectSeq(contexts, LAMBDA name : (provides[name] = p) = provided)

\* std::stable_partition: the provided meshes are pulled up front
stablePartition(contexts, p, provides) ==
  providedOf(contexts, p, provides, TRUE) \o providedOf(contexts, p, provides, FALSE)

\* faulty variant of initialHalves: the first participant receives first too
initialHalvesReceiveFirst(first) == <<"receive", "send">>

\* BiCouplingScheme::exchangeInitialData: "F: send, receive, S: receive, send"
initialHalves(first) ==
  IF first THEN <<"send", "receive">> ELSE <<"receive", "send">>

\* faulty variant of closeRequests: neither side sends before it receives
closeRequestsNever(isRequesting) == FALSE

\* closeCommunicationChannels: the requesting side sends first
closeRequests(isRequesting) == isRequesting

\* the messages of the initial data of a participant
initialMessages(global) ==
  <<Message(MeshChannel, "data", 0)>>
    \o (IF global THEN <<Message(GlobalChannel, "globalData", 0)>> ELSE <<>>)

ConnectionInit ==
  /\ \E orders \in [Participants -> MeshOrders], provides \in [MeshNames -> Participants],
        sends \in [Participants -> BOOLEAN], receives \in [Participants -> BOOLEAN],
        global \in BOOLEAN, requesting \in Participants, twoLevel \in BOOLEAN :
       conn = [part |-> [p \in Participants |->
                          [pc |-> Constructed,
                           contexts |-> orders[p],
                           next |-> 1,
                           sendsInitializedData |-> sends[p],
                           receivesInitializedData |-> receives[p],
                           isRequesting |-> p = requesting,
                           got |-> <<>>,
                           closed |-> FALSE]],
               provides |-> provides,
               global |-> global,
               usesTwoLevelInitialization |-> twoLevel,
               net |-> [p \in Participants |-> [channel \in Channels |-> <<>>]]]
  /\ mesh = <<>>
  /\ measuring = <<>>
  /\ intra = <<>>
  /\ couplingData = <<>>
  /\ scheme = <<>>
  /\ m2n = <<>>
  /\ solver = <<>>
  /\ seen = <<>>
  /\ state = Constructed
  /\ meshLock = [m \in Meshes |-> FALSE]
  /\ vertexCount = [m \in Meshes |-> 0]
  /\ writeValues = <<>>
  /\ waveform = <<>>
  /\ accessRegionDefined = FALSE
  /\ allowsExperimental = FALSE
  /\ hasAccessor = TRUE
  /\ cpl = NoScheme
  /\ destroyed = FALSE
  /\ last = [call |-> "constructor", arg |-> NoArg, from |-> Constructed,
             result |-> OK, ret |-> NoReturn]
  /\ hist = <<>>

\* the variables the connecting participants leave alone
ConnectionFrame == UNCHANGED <<interfaceVars, serialVars, mesh, measuring, intra, couplingData>>

\* initialize() of participant p up to the first communication of
\* computePartitions: the contexts are sorted
initializeOfConnection(p) ==
  /\ conn.part[p].pc = Constructed
  /\ conn' = [conn EXCEPT !.part[p].pc = communicate,
                          !.part[p].contexts = sortByName(@),
                          !.part[p].next = 1]
  /\ ConnectionFrame

\* meshContext->partition->communicate() for the next context: a provided
\* mesh is sent, a received mesh is waited for; after the last context the
\* provided meshes are pulled up front, unless the connection uses the
\* two-level initialization, and the participant goes on to
\* BaseCouplingScheme::initialize
communicateOf(p) ==
  LET part == conn.part[p]
      name == part.contexts[part.next]
      isLast == part.next = Len(part.contexts)
      pc == IF isLast THEN exchangeInitialData ELSE communicate
      contexts == IF isLast /\ ~conn.usesTwoLevelInitialization
                    THEN stablePartition(part.contexts, p, conn.provides)
                    ELSE part.contexts
  IN  /\ part.pc = communicate
      /\ IF conn.provides[name] = p
           THEN conn' = [conn EXCEPT
                           !.net = send(@, partner(p), <<Message(PrimaryChannel, "mesh", name)>>),
                           !.part[p].next = @ + 1,
                           !.part[p].contexts = contexts,
                           !.part[p].pc = pc]
           ELSE /\ arrived(conn.net, p, PrimaryChannel)
                /\ conn' = [conn EXCEPT
                              !.net = receive(@, p, PrimaryChannel),
                              !.part[p].got = Append(@, [waited |-> name,
                                                         came |-> received(conn.net, p, PrimaryChannel).value]),
                              !.part[p].next = @ + 1,
                              !.part[p].contexts = contexts,
                              !.part[p].pc = pc]
      /\ ConnectionFrame

\* one half of exchangeInitialData of participant p: the sends if it sends
\* initialized data, the receives if it receives initialized data
exchangeInitialDataHalf(p, half, pc) ==
  IF half = "send"
    THEN conn' = [conn EXCEPT
                    !.net = IF conn.part[p].sendsInitializedData
                              THEN send(@, partner(p), initialMessages(conn.global))
                              ELSE @,
                    !.part[p].pc = pc]
    ELSE IF conn.part[p].receivesInitializedData
      THEN /\ arrived(conn.net, p, MeshChannel)
           /\ conn.global => arrived(conn.net, p, GlobalChannel)
           /\ conn' = [conn EXCEPT
                         !.net = IF conn.global
                                   THEN receive(receive(@, p, MeshChannel), p, GlobalChannel)
                                   ELSE receive(@, p, MeshChannel),
                         !.part[p].pc = pc]
      ELSE conn' = [conn EXCEPT !.part[p].pc = pc]

\* exchangeInitialData of participant p, its first and its second half;
\* after it initialize() returns
exchangeInitialDataOf(p) ==
  /\ \/ /\ conn.part[p].pc = exchangeInitialData
        /\ exchangeInitialDataHalf(p, initialHalves(p = FirstParticipant)[1],
                                   exchangedFirstHalf)
     \/ /\ conn.part[p].pc = exchangedFirstHalf
        /\ exchangeInitialDataHalf(p, initialHalves(p = FirstParticipant)[2], Initialized)
  /\ ConnectionFrame

\* finalize() of participant p up to the receive of closeCommunicationChannels
finalizeOfConnection(p) ==
  /\ conn.part[p].pc = Initialized
  /\ conn' = [conn EXCEPT
                !.net = IF closeRequests(conn.part[p].isRequesting)
                          THEN send(@, partner(p), <<Message(PrimaryChannel, "close", ping)>>)
                          ELSE @,
                !.part[p].pc = closeCommunicationChannels]
  /\ ConnectionFrame

\* closeCommunicationChannels of participant p from its receive on: the
\* accepting side answers the ping with a pong; then the connection is
\* closed and finalize() returns
closeOf(p) ==
  /\ conn.part[p].pc = closeCommunicationChannels
  /\ arrived(conn.net, p, PrimaryChannel)
  /\ conn' = [conn EXCEPT
                !.net = IF closeRequests(conn.part[p].isRequesting)
                          THEN receive(@, p, PrimaryChannel)
                          ELSE send(receive(@, p, PrimaryChannel), partner(p),
                                    <<Message(PrimaryChannel, "close", pong)>>),
                !.part[p].got = Append(@, [waited |-> IF conn.part[p].isRequesting
                                                        THEN pong ELSE ping,
                                           came |-> received(conn.net, p, PrimaryChannel).value]),
                !.part[p].closed = TRUE,
                !.part[p].pc = Finalized]
  /\ ConnectionFrame

\* the steps a participant takes inside initialize() and finalize()
ConnectionStep(p) == communicateOf(p) \/ exchangeInitialDataOf(p) \/ closeOf(p)

ConnectionNext ==
  \/ \E p \in Participants : initializeOfConnection(p)
  \/ \E p \in Participants : communicateOf(p)
  \/ \E p \in Participants : exchangeInitialDataOf(p)
  \/ \E p \in Participants : finalizeOfConnection(p)
  \/ \E p \in Participants : closeOf(p)

\* a participant inside a call goes on whenever it can: it waits only in a
\* receive, for a message that has not arrived
ConnectionSpec ==
  /\ ConnectionInit
  /\ [][ConnectionNext]_vars
  /\ \A p \in Participants : WF_vars(ConnectionStep(p))

----------------------------------------------------------------------------
(* The coupling data of one scheme while the configuration adds its         *)
(* exchanges.  An instance of CouplingData or GlobalCouplingData is a       *)
(* number, in the order of creation; a map from data ids to shared pointers *)
(* is a function that is NoInstance where the map has no entry.             *)
(* couplingData.instances is the number of instances created so far.        *)

DataIDs == 1 .. MaxData
NoInstance == 0
ErrTwice == "error: cannot be added twice"

contained(id, map) == map[id] # NoInstance
emplace(map, id, instance) == [map EXCEPT ![id] = instance]

DataCall(call, id, result) == [call |-> call, id |-> id, result |-> result]

\* BaseCouplingScheme::addCouplingData on the table `all`: the instance for
\* the id, created if the table has none
addCouplingData(d, all, id) ==
  IF ~contained(id, all)
    THEN [instances |-> d.instances + 1, all |-> emplace(all, id, d.instances + 1),
          ptr |-> d.instances + 1]
    ELSE [instances |-> d.instances, all |-> all, ptr |-> all[id]]

\* BaseCouplingScheme::addGlobalCouplingData: the same lookup by data id in
\* the table of all global data
addGlobalCouplingData(d, id) == addCouplingData(d, d.allGlobalData, id)

DataInit ==
  /\ couplingData = [instances |-> 0,
                     allData |-> [id \in DataIDs |-> NoInstance],
                     sendData |-> [id \in DataIDs |-> NoInstance],
                     receiveData |-> [id \in DataIDs |-> NoInstance],
                     allGlobalData |-> [id \in DataIDs |-> NoInstance],
                     sendGlobalData |-> [id \in DataIDs |-> NoInstance],
                     receiveGlobalData |-> [id \in DataIDs |-> NoInstance],
                     call |-> DataCall("constructor", NoArg, OK)]
  /\ mesh = <<>>
  /\ measuring = <<>>
  /\ intra = <<>>
  /\ conn = <<>>
  /\ scheme = <<>>
  /\ m2n = <<>>
  /\ solver = <<>>
  /\ seen = <<>>
  /\ state = Constructed
  /\ meshLock = [m \in Meshes |-> FALSE]
  /\ vertexCount = [m \in Meshes |-> 0]
  /\ writeValues = <<>>
  /\ waveform = <<>>
  /\ accessRegionDefined = FALSE
  /\ allowsExperimental = FALSE
  /\ hasAccessor = TRUE
  /\ cpl = NoScheme
  /\ destroyed = FALSE
  /\ last = [call |-> "constructor", arg |-> NoArg, from |-> Constructed,
             result |-> OK, ret |-> NoReturn]
  /\ hist = <<>>

\* the variables the configuration of the coupling data leaves alone
DataFrame == UNCHANGED <<interfaceVars, serialVars, mesh, measuring, intra, conn>>

\* BiCouplingScheme::addDataToSend
addDataToSend(id) ==
  LET d == couplingData
      added == addCouplingData(d, d.allData, id)
      d1 == [d EXCEPT !.instances = added.instances, !.allData = added.all]
  IN  /\ couplingData' =
           IF ~contained(id, d.sendData)
             THEN [d1 EXCEPT !.sendData = emplace(@, id, added.ptr),
                             !.call = DataCall("addDataToSend", id, OK)]
             ELSE [d1 EXCEPT !.call = DataCall("addDataToSend", id, ErrTwice)]
      /\ DataFrame

\* BiCouplingScheme::addDataToReceive
addDataToReceive(id) ==
  LET d == couplingData
      added == addCouplingData(d, d.allData, id)
      d1 == [d EXCEPT !.instances = added.instances, !.allData = added.all]
  IN  /\ couplingData' =
           IF ~contained(id, d.receiveData)
             THEN [d1 EXCEPT !.receiveData = emplace(@, id, added.ptr),
                             !.call = DataCall("addDataToReceive", id, OK)]
             ELSE [d1 EXCEPT !.call = DataCall("addDataToReceive", id, ErrTwice)]
      /\ DataFrame

\* BiCouplingScheme::addGlobalDataToSend
addGlobalDataToSend(id) ==
  LET d == couplingData
      added == addGlobalCouplingData(d, id)
      d1 == [d EXCEPT !.instances = added.instances, !.allGlobalData = added.all]
  IN  /\ couplingData' =
           IF ~contained(id, d.sendGlobalData)
             THEN [d1 EXCEPT !.sendGlobalData = emplace(@, id, added.ptr),
                             !.call = DataCall("addGlobalDataToSend", id, OK)]
             ELSE [d1 EXCEPT !.call = DataCall("addGlobalDataToSend", id, ErrTwice)]
      /\ DataFrame

\* BiCouplingScheme::addGlobalDataToReceive: the entry of _receiveGlobalData
\* is std::make_shared<GlobalCouplingData>(...), a new instance
addGlobalDataToReceive(id) ==
  LET d == couplingData
      added == addGlobalCouplingData(d, id)
      d1 == [d EXCEPT !.instances = added.instances, !.allGlobalData = added.all]
  IN  /\ couplingData' =
           IF ~contained(id, d.receiveGlobalData)
             THEN [d1 EXCEPT !.receiveGlobalData = emplace(@, id, d1.instances + 1),
                             !.instances = @ + 1,
                             !.call = DataCall("addGlobalDataToReceive", id, OK)]
             ELSE [d1 EXCEPT !.call = DataCall("addGlobalDataToReceive", id, ErrTwice)]
      /\ DataFrame

DataNext ==
  \/ \E id \in DataIDs : addDataToSend(id)
  \/ \E id \in DataIDs : addDataToReceive(id)
  \/ \E id \in DataIDs : addGlobalDataToSend(id)
  \/ \E id \in DataIDs : addGlobalDataToReceive(id)

DataSpec == DataInit /\ [][DataNext]_vars

----------------------------------------------------------------------------
(* The life cycle (claims C1 to C3) *)

\* C1: initialize() is accepted only in state Constructed and then leaves the
\* interface Initialized; in Initialized or Finalized it fails with an error
\* and changes no state; it succeeds at most once.
C1_InitializeOnlyOnceFromConstructed ==
  /\ last.call = "initialize" /\ last.result = OK
       => last.from = Constructed /\ state = Initialized
  /\ last.call = "initialize" /\ last.from # Constructed
       => last.result \in Errors /\ state = last.from
  /\ hist.initializeRuns <= 1

\* a second initialize() was called on an initialized interface and rejected
C1_Witness ==
  /\ last.call = "initialize"
  /\ last.from = Initialized
  /\ last.result = ErrOnce
  /\ hist.initializeRuns = 1

\* C2 (as the code has it): finalize() called in state Constructed succeeds
\* and leaves the interface Finalized; called in state Initialized it does so
\* unless the coupling scheme has a required action that is not fulfilled, in
\* which case it fails and the interface stays Initialized; called in state
\* Finalized it fails with an error.
C2_FinalizeUnlessActionMissing ==
  [][last'.call = "finalize" =>
       /\ state = Constructed => last'.result = OK /\ state' = Finalized
       /\ state = Initialized /\ missingActions(cpl) = {}
            => last'.result = OK /\ state' = Finalized
       /\ state = Initialized /\ missingActions(cpl) # {}
            => last'.result = ErrActions /\ state' = Initialized
       /\ state = Finalized => last'.result \in Errors /\ state' = Finalized]_vars

\* C2 as stated: finalize() called in state Constructed or Initialized
\* succeeds and leaves the interface Finalized; called in state Finalized it
\* fails with an error.
C2_FinalizeAlwaysSucceeds ==
  /\ last.call = "finalize" /\ last.from \in {Constructed, Initialized}
       => last.result = OK /\ state = Finalized
  /\ last.call = "finalize" /\ last.from = Finalized => last.result \in Errors

\* finalize() was called on an initialized interface and failed
C2_Witness ==
  /\ last.call = "finalize"
  /\ last.from = Initialized
  /\ last.result = ErrActions
  /\ state = Initialized

\* C3 (as the code has it): the body of finalize() completes at most once;
\* it runs exactly once over a call sequence that ends with the destruction
\* unless a run of it failed; the destructor runs it exactly if the interface
\* is not Finalized, and never raises the error of a second finalize().
C3_FinalizeBodyCompletesOnce ==
  /\ [](/\ hist.finalizeCompleted <= 1
        /\ destroyed /\ hist.finalizeRuns = hist.finalizeCompleted
             => hist.finalizeRuns = 1
        /\ last.call = "destructor" => last.result # ErrOnce)
  /\ [][destroyed' /\ ~destroyed =>
          /\ state # Finalized => hist'.finalizeRuns = hist.finalizeRuns + 1
          /\ state = Finalized => hist' = hist /\ last'.result = OK]_vars

\* C3 as stated: over a call sequence that ends with the destruction the body
\* of finalize() runs exactly once.
C3_FinalizeBodyRunsOnce ==
  destroyed => hist.finalizeRuns = 1

\* the interface was initialized, finalized by the solver, then destroyed
C3_Witness ==
  /\ destroyed
  /\ last.call = "destructor"
  /\ last.from = Finalized
  /\ last.result = OK
  /\ hist.initializeRuns = 1
  /\ hist.finalizeRuns = 1

----------------------------------------------------------------------------
(* Preconditions of the calls (claims C4 to C7) *)

\* C4: advance(dt) is rejected with an error, and advances nothing, unless
\* the interface is Initialized, isCouplingOngoing() holds and dt > 0.
C4_AdvancePreconditions ==
  [][last'.call = "advance"
       /\ ~(state = Initialized /\ isCouplingOngoing(cpl) /\ last'.arg > 0)
       => last'.result \in Errors /\ cpl' = cpl /\ state' = state]_vars

\* advance() was called after the coupling had ended and was rejected
C4_Witness ==
  /\ last.call = "advance"
  /\ last.arg > 0
  /\ state = Initialized
  /\ ~isCouplingOngoing(cpl)
  /\ last.result = ErrNotOngoing

\* C5: a mesh is modifiable only while the interface is Constructed, or while
\* it is Initialized after resetMesh on that mesh; once the interface is
\* Initialized the modification of a mesh that was not reset fails with an error.
C5_MeshModifiableOnlyUnlocked ==
  /\ last.call = "setMeshVertex" /\ last.result = OK
       => \/ last.from = Constructed
          \/ last.from = Initialized /\ last.arg \in hist.resetSinceLock
  /\ last.call = "setMeshVertex" /\ last.from = Initialized
       /\ last.arg \notin hist.resetSinceLock
       => last.result \in Errors

\* a vertex was set on a reset mesh of an initialized interface
C5_Witness ==
  /\ last.call = "setMeshVertex"
  /\ last.from = Initialized
  /\ last.arg \in hist.resetSinceLock
  /\ last.result = OK

\* C6 (as the code has it): data writes are accepted while the interface is
\* Constructed or Initialized and fail with an error once it is Finalized;
\* data reads are accepted only while it is Initialized, and fail with an
\* error while it is Constructed.
C6_WritesBeforeFinalizeReadsWhenInitialized ==
  /\ last.call = "writeScalarData" /\ last.result = OK
       => last.from \in {Constructed, Initialized}
  /\ last.call = "writeScalarData" /\ last.from = Finalized => last.result \in Errors
  /\ last.call \in {"readScalarData", "readScalarDataAt"} /\ last.result = OK
       => last.from = Initialized
  /\ last.call \in {"readScalarData", "readScalarDataAt"} /\ last.from = Constructed
       => last.result \in Errors

\* C6 as stated: data writes and reads are accepted only while the interface
\* is Initialized; while it is Constructed or Finalized they fail with an error.
C6_DataAccessOnlyWhenInitialized ==
  last.call \in {"writeScalarData", "readScalarData", "readScalarDataAt"}
    => /\ last.result = OK => last.from = Initialized
       /\ last.from \in {Constructed, Finalized} => last.result \in Errors

\* a value was written before initialize()
C6_Witness ==
  /\ last.call = "writeScalarData"
  /\ last.from = Constructed
  /\ last.result = OK

\* C7 (as the code has it): setMeshAccessRegion is accepted only while the
\* interface is Constructed, and at most once for the interface, whatever
\* the mesh.
C7_AccessRegionOncePerInterface ==
  /\ last.call = "setMeshAccessRegion" /\ last.result = OK => last.from = Constructed
  /\ hist.accessRegions <= 1

\* C7 as stated: setMeshAccessRegion is accepted only while the interface is
\* Constructed and at most once per mesh: a call is rejected as a repetition
\* only if that mesh has an access region already.
C7_AccessRegionOncePerMesh ==
  /\ last.call = "setMeshAccessRegion" /\ last.result = OK => last.from = Constructed
  /\ last.call = "setMeshAccessRegion" /\ last.result = ErrOnce
       => last.arg \in hist.accessRegionMeshes

\* the first access region of a mesh was rejected after one of another mesh
C7_Witness ==
  /\ last.call = "setMeshAccessRegion"
  /\ last.result = ErrOnce
  /\ last.arg \notin hist.accessRegionMeshes
  /\ hist.accessRegions = 1

----------------------------------------------------------------------------
(* Errors and the calls after finalize() (claims C8, C9) *)

C9_EveryCallFailsAfterFinalize ==
  last.from = Finalized /\ last.call # "destructor" => last.result \in Errors

----------------------------------------------------------------------------
(* The action queries (claim C10) *)

\* C10: requiresInitialData, requiresWritingCheckpoint and
\* requiresReadingCheckpoint return true exactly if the scheme requires the
\* action, and then mark it fulfilled in the same call; returning false they
\* change nothing of the scheme.
C10_ActionQueriesFulfil ==
  [][\A q \in {<<"requiresInitialData", InitializeData>>,
               <<"requiresWritingCheckpoint", WriteCheckpoint>>,
               <<"requiresReadingCheckpoint", ReadCheckpoint>>} :
       last'.call = q[1] /\ last'.result = OK
         => /\ last'.ret = Bool(isActionRequired(cpl, q[2]))
            /\ cpl'.requiredActions = cpl.requiredActions
            /\ last'.ret = 1 => cpl'.fulfilledActions = cpl.fulfilledActions \cup {q[2]}
            /\ last'.ret = 0 => cpl' = cpl]_vars

\* requiresWritingCheckpoint() returned true and the action is fulfilled
C10_Witness ==
  /\ last.call = "requiresWritingCheckpoint"
  /\ last.ret = 1
  /\ isActionRequired(cpl, WriteCheckpoint)
  /\ isActionFulfilled(cpl, WriteCheckpoint)

----------------------------------------------------------------------------
(* Required actions and implicit iterations (claims C11 to C13, C18) *)

\* C11: a call of initialize() made while InitializeData is required and not
\* fulfilled fails with an error and leaves the interface Constructed; a call
\* of advance() or finalize() (also the one of the destructor) made while
\* WriteCheckpoint or ReadCheckpoint is required and not fulfilled fails with
\* an error and leaves the interface Initialized.
C11_UnfulfilledActionFailsNextPhase ==
  [][LET missing == cpl.requiredActions \ cpl.fulfilledActions
     IN  /\ last'.call = "initialize" /\ state = Constructed /\ InitializeData \in missing
              => last'.result \in Errors /\ state' = Constructed
         /\ last'.call \in {"advance", "finalize", "destructor"} /\ state = Initialized
              /\ missing \cap {WriteCheckpoint, ReadCheckpoint} # {}
              => last'.result \in Errors /\ state' = Initialized]_vars

\* advance() failed because the checkpoint of the repeated iteration was not read
C11_Witness ==
  /\ last.call = "advance"
  /\ last.result = ErrActions
  /\ ReadCheckpoint \in cpl.requiredActions \ cpl.fulfilledActions

\* C12: in an implicit scheme an advance() that ends an iteration without
\* convergence leaves ReadCheckpoint required (once: the required actions are
\* a set) and the window incomplete; an advance() that ends an iteration with
\* convergence, measured or forced because _iterations had reached
\* _maxIterations, leaves ReadCheckpoint not required and the window complete;
\* an advance() inside the window requires no ReadCheckpoint.
C12_ReadCheckpointPerNonConvergentIteration ==
  [][last'.call = "advance" /\ last'.result = OK /\ isImplicitCouplingScheme(cpl) =>
       LET ended == equals(cpl.timeWindowSize - (cpl.computedTimeWindowPart + last'.arg),
                           0, Eps)
       IN  /\ ended /\ ~cpl'.hasConverged
                => ReadCheckpoint \in cpl'.requiredActions /\ ~cpl'.isTimeWindowComplete
           /\ ended /\ cpl'.hasConverged
                => ReadCheckpoint \notin cpl'.requiredActions /\ cpl'.isTimeWindowComplete
           /\ ended /\ cpl.iterations = cpl.maxIterations => cpl'.hasConverged
           /\ ~ended => ReadCheckpoint \notin cpl'.requiredActions]_vars

\* an iteration ended without convergence and asks for the checkpoint
C12_Witness ==
  /\ last.call = "advance"
  /\ last.result = OK
  /\ isImplicitCouplingScheme(cpl)
  /\ ~cpl.hasConverged
  /\ isActionRequired(cpl, ReadCheckpoint)

\* C13: right after an advance() that ended an implicit iteration without
\* convergence, _time is the time at which the current window started (the
\* time of initialize() or of the last completed window), whatever the number
\* of advance() calls that covered the window.
C13_TimeRewoundToWindowStart ==
  last.call = "advance" /\ last.result = OK /\ isImplicitCouplingScheme(cpl)
    /\ cpl.computedTimeWindowPart = 0 /\ ~cpl.hasConverged
    => cpl.time = hist.windowStart

\* a window covered by several time steps was rewound
C13_Witness ==
  /\ last.call = "advance"
  /\ last.result = OK
  /\ last.arg < TimeWindowSize - Eps
  /\ isImplicitCouplingScheme(cpl)
  /\ cpl.computedTimeWindowPart = 0
  /\ ~cpl.hasConverged
  /\ cpl.time = hist.windowStart

\* C18: _iterations is 1 after the construction and whenever the time window
\* is complete; an advance() that ends an implicit iteration without
\* convergence increases it by exactly one, one that ends the iteration with
\* convergence sets it to 1, and one inside the window leaves it.
C18_IterationsCounter ==
  /\ [](/\ state = Constructed => cpl.iterations = 1
        /\ cpl.isTimeWindowComplete => cpl.iterations = 1)
  /\ [][last'.call = "advance" /\ last'.result = OK /\ isImplicitCouplingScheme(cpl) =>
          LET ended == equals(cpl.timeWindowSize - (cpl.computedTimeWindowPart + last'.arg),
                              0, Eps)
          IN  /\ ended /\ ~cpl'.hasConverged => cpl'.iterations = cpl.iterations + 1
              /\ ended /\ cpl'.hasConverged => cpl'.iterations = 1
              /\ ~ended => cpl'.iterations = cpl.iterations]_vars

\* the second iteration of a window has begun
C18_Witness ==
  /\ last.call = "advance"
  /\ last.result = OK
  /\ isImplicitCouplingScheme(cpl)
  /\ cpl.iterations = 2
  /\ ~cpl.isTimeWindowComplete

----------------------------------------------------------------------------
(* The size of a time step (claim C19) *)

\* C19: with a time window size W set, an advance(dt) that passes the checks
\* of the interface fails for its time step size exactly if the computed part
\* of the window, dt included, exceeds W by more than eps; otherwise the sum
\* is accepted, and the call succeeds unless a required action is unfulfilled.
C19_OverrunBeyondEps ==
  [][last'.call = "advance" /\ state = Initialized /\ isCouplingOngoing(cpl)
       /\ last'.arg > 0 /\ hasTimeWindowSize(cpl) =>
       LET sum == cpl.computedTimeWindowPart + last'.arg
       IN  /\ last'.result = ErrOverrun <=> sum - cpl.timeWindowSize > Eps
           /\ sum - cpl.timeWindowSize <= Eps => last'.result \in {OK, ErrActions}
           /\ cpl'.computedTimeWindowPart \in {sum, 0}]_vars

\* a time step that exceeds the window by eps was accepted
C19_Witness ==
  /\ last.call = "advance"
  /\ last.result = OK
  /\ last.arg = TimeWindowSize + Eps
  /\ cpl.computedTimeWindowPart = 0

----------------------------------------------------------------------------
(* The messages of the first participant (claim C14) *)

\* C14: the messages the first participant sends in one advance (time window
\* size, data, global data) are all received by the second participant, in
\* that order, by its next receive step, the one of initialize included.
C14_SentReceivedInOrder == seen.received = seen.expected

\* the same for the schemes that exchange no global data
C14_SentReceivedInOrderWithoutGlobalData ==
  ~scheme[SecondParticipant].receivesGlobalData => seen.received = seen.expected

\* the second participant has received what the first sent in its third window
C14_ThirdWindowReceived ==
  /\ ~scheme[SecondParticipant].receivesGlobalData
  /\ scheme[SecondParticipant].participantReceivesTimeWindowSize
  /\ seen.call.by = SecondParticipant
  /\ seen.call.call = "advance"
  /\ seen.call.result = OK
  /\ scheme[SecondParticipant].timeWindows = SerialTimeWindows
  /\ Len(seen.received) = 2
  /\ seen.sent = <<>>

----------------------------------------------------------------------------
(* The values a participant reads (claim C15) *)

----------------------------------------------------------------------------
(* The end of the simulation (claim C16) *)

\* C16: in a serial explicit scheme with a fixed time window size W that ends
\* after three windows (max time 3 W or three time windows), a participant
\* that has called advance(W) only reports isCouplingOngoing() exactly as long
\* as it has completed fewer than three advances.
C16_OngoingUntilThirdAdvance ==
  \A p \in Participants :
    /\ ~isImplicitCouplingScheme(scheme[p])
    /\ hasTimeWindowSize(scheme[p])
    /\ ~scheme[p].participantReceivesTimeWindowSize
    /\ solver[p].state = Initialized
    /\ seen.fullSteps[p] >= 0
    => (isCouplingOngoing(scheme[p]) <=> seen.fullSteps[p] < SerialTimeWindows)

\* both participants have completed three advance(W) of a scheme with a max
\* time and the coupling is over
C16_Witness ==
  /\ scheme[FirstParticipant].maxTime = SerialTimeWindows * TimeWindowSize
  /\ \A p \in Participants :
       /\ solver[p].state = Initialized
       /\ seen.fullSteps[p] = SerialTimeWindows
       /\ ~isCouplingOngoing(scheme[p])

\* both participants have completed two advance(W) of a scheme with a number
\* of time windows, the first is in its third, and the coupling is ongoing
\* for the second
C16_OngoingBeforeThird ==
  /\ scheme[FirstParticipant].maxTimeWindows = SerialTimeWindows
  /\ ~scheme[FirstParticipant].participantSetsTimeWindowSize
  /\ ~isImplicitCouplingScheme(scheme[FirstParticipant])
  /\ solver[FirstParticipant].state = Exchanging
  /\ solver[SecondParticipant].state = Initialized
  /\ isCouplingOngoing(scheme[SecondParticipant])
  /\ \A p \in Participants : seen.fullSteps[p] = SerialTimeWindows - 1

----------------------------------------------------------------------------
(* The time window size set by the first participant (claim C17) *)

----------------------------------------------------------------------------
(* Reads of the participant that sets the time window size (claim C20) *)

\* C20: for the participant that sets the time window size, a read whose
\* relative read time differs from the remainder of the window fails with an
\* error, and a read at the remainder succeeds and samples the end of the
\* window (normalized position 1), that is the values received last.
C20_ReadOnlyAtRemainder ==
  LET p == seen.call.by
  IN  /\ seen.call.call = "readData"
      /\ scheme[p].participantSetsTimeWindowSize
      => IF seen.call.arg = getThisTimeWindowRemainder(scheme[p])
           THEN /\ seen.call.result = OK
                /\ seen.call.normalized = <<1, 1>>
                /\ seen.call.value = solver[p].sample
           ELSE seen.call.result \in {ErrReadTime, ErrRelaxation}

\* the participant that sets the time window size has read, at the
\* remainder, the value it received from the second participant
C20_Witness ==
  /\ seen.call.call = "readData"
  /\ scheme[seen.call.by].participantSetsTimeWindowSize
  /\ seen.call.arg = getThisTimeWindowRemainder(scheme[seen.call.by])
  /\ seen.call.result = OK
  /\ seen.call.normalized = <<1, 1>>
  /\ seen.call.value = MaxWritten

\* a read of that participant at another time has failed
C20_ReadElsewhereFailed ==
  /\ seen.call.call = "readData"
  /\ scheme[seen.call.by].participantSetsTimeWindowSize
  /\ seen.call.arg = TimeWindowSize
  /\ seen.call.result = ErrReadTime

----------------------------------------------------------------------------
(* The ids of setMeshVertices (claim C21) *)

\* C21: setMeshVertices(mesh, n, positions, ids) on a mesh that held old_size
\* vertices returns n pairwise distinct ids, each in [old_size, old_size + n),
\* and afterwards getMeshVertexSize(mesh) equals old_size + n.
C21_SetMeshVerticesIds ==
  /\ [](mesh.call.call = "setMeshVertices" /\ mesh.call.result = OK =>
          LET ids == mesh.call.ids
          IN  /\ Len(ids) = mesh.call.size
              /\ \A i \in 1 .. Len(ids) :
                   /\ ids[i] >= mesh.call.oldSize
                   /\ ids[i] < mesh.call.oldSize + mesh.call.size
              /\ \A i, j \in 1 .. Len(ids) : i # j => ids[i] # ids[j]
              /\ Len(mesh.vertices[mesh.call.mesh]) = mesh.call.oldSize + mesh.call.size)
  /\ [][/\ mesh.call.call = "setMeshVertices"
        /\ mesh.call.result = OK
        /\ mesh'.call.call = "getMeshVertexSize"
        /\ mesh'.call.mesh = mesh.call.mesh
        => mesh'.call.ret = mesh.call.oldSize + mesh.call.size]_vars

\* two vertices were added to a mesh of one, the other mesh holding another
\* number of vertices, and the size was queried
C21_Witness ==
  /\ mesh.call.call = "getMeshVertexSize"
  /\ mesh.call.mesh = 1
  /\ mesh.call.ret = 3
  /\ mesh.vertices[1] = <<0, 1, 2>>
  /\ mesh.vertices[2] = <<0, 1>>

\* setMeshVertices has returned the ids 1, 2 on a mesh of one vertex
C21_TwoIdsReturned ==
  /\ mesh.call.call = "setMeshVertices"
  /\ mesh.call.oldSize = 1
  /\ mesh.call.ids = <<1, 2>>

----------------------------------------------------------------------------
(* The convergence measures (claims C22, C23, C25, C26) *)

\* C22: measureConvergence reports convergence exactly when every configured
\* measure converged, or at least one measure flagged suffices converged and
\* no measure flagged strict failed to converge.
C22_ConvergenceOfMeasures ==
  LET call == measuring.call
      measures == measuring.measures
      all == \A i \in DOMAIN measures : call.isConvergence[i]
      suffices == \E i \in DOMAIN measures : measures[i].suffices /\ call.isConvergence[i]
      unmet == \E i \in DOMAIN measures : measures[i].strict /\ ~call.isConvergence[i]
  IN  /\ call.call = "advance"
      /\ call.result \in {OK, ErrStrict}
      => (call.measured <=> all \/ (suffices /\ ~unmet))

\* a sufficient measure converged, another one did not, and convergence was
\* reported
C22_Witness ==
  /\ measuring.call.call = "advance"
  /\ measuring.call.result = OK
  /\ Len(measuring.measures) = 2
  /\ measuring.measures[1].suffices
  /\ ~measuring.measures[2].strict
  /\ measuring.call.isConvergence = <<TRUE, FALSE>>
  /\ measuring.call.measured

\* a sufficient measure converged, a strict one did not, and no convergence
\* was reported
C22_StrictOverrules ==
  /\ measuring.call.call = "advance"
  /\ measuring.call.result = OK
  /\ Len(measuring.measures) = 2
  /\ measuring.measures[1].suffices
  /\ measuring.measures[2].strict
  /\ measuring.call.isConvergence = <<TRUE, FALSE>>
  /\ ~measuring.call.measured

\* C23: an advance that reaches its convergence measures fails with an error
\* exactly if a measure flagged strict has not converged in the iteration in
\* which _iterations equals _maxIterations; the window is then not completed.
\* In earlier iterations a failing strict measure is not an error.
C23_StrictFailureAtLimitIsFatal ==
  LET call == measuring.call
      unmet == \E i \in DOMAIN measuring.measures :
                 measuring.measures[i].strict /\ ~call.isConvergence[i]
  IN  /\ call.call = "advance"
      /\ call.result \in {OK, ErrStrict}
      => /\ call.result = ErrStrict <=>
              unmet /\ call.before.iterations = call.before.maxIterations
         /\ call.result = ErrStrict =>
              /\ ~call.converged
              /\ ~measuring.c.isTimeWindowComplete
              /\ measuring.c.iterations = call.before.iterations

\* a strict measure failed in the second and last iteration
C23_Witness ==
  /\ measuring.call.call = "advance"
  /\ measuring.call.result = ErrStrict
  /\ measuring.call.before.iterations = 2
  /\ measuring.call.before.maxIterations = 2

\* a strict measure failed in the first of three iterations without an error
C23_StrictFailureBeforeLimit ==
  /\ measuring.call.call = "advance"
  /\ measuring.call.result = OK
  /\ measuring.call.before.iterations = 1
  /\ measuring.call.before.maxIterations = 3
  /\ measuring.measures[1].strict
  /\ ~measuring.call.isConvergence[1]
  /\ measuring.c.iterations = 2

\* C25 as stated: an iteration performed while _iterations equals
\* _maxIterations is always treated as converged, so that _iterations never
\* exceeds _maxIterations and the window completes.
C25_AlwaysConvergedAtLimit ==
  /\ measuring.c.iterations <= measuring.c.maxIterations
  /\ /\ measuring.call.call = "advance"
     /\ measuring.call.result \in {OK, ErrStrict}
     /\ measuring.call.before.iterations = measuring.call.before.maxIterations
     => /\ measuring.call.converged
        /\ measuring.c.isTimeWindowComplete

\* C25: an iteration performed while _iterations equals _maxIterations is
\* treated as converged unless a measure flagged strict did not converge in
\* it, in which case the advance fails and the window stays incomplete;
\* _iterations never exceeds _maxIterations, and a window that completes does
\* so after at most _maxIterations iterations.
C25_ConvergedAtLimitUnlessStrict ==
  LET call == measuring.call
      unmet == \E i \in DOMAIN measuring.measures :
                 measuring.measures[i].strict /\ ~call.isConvergence[i]
  IN  /\ measuring.c.iterations >= 1
      /\ measuring.c.iterations <= measuring.c.maxIterations
      /\ /\ call.call = "advance"
         /\ call.result \in {OK, ErrStrict}
         /\ call.before.iterations = call.before.maxIterations
         => IF unmet
              THEN call.result = ErrStrict /\ ~measuring.c.isTimeWindowComplete
              ELSE /\ call.result = OK
                   /\ call.converged
                   /\ measuring.c.isTimeWindowComplete
                   /\ measuring.c.iterations = 1

\* the third of three iterations was forced to converge: no measure had
\* converged, none of them strict
C25_Witness ==
  /\ measuring.call.call = "advance"
  /\ measuring.call.result = OK
  /\ measuring.call.before.iterations = 3
  /\ measuring.call.before.maxIterations = 3
  /\ \A i \in DOMAIN measuring.measures : ~measuring.call.isConvergence[i]
  /\ ~measuring.call.measured
  /\ measuring.call.converged
  /\ measuring.c.isTimeWindowComplete

C26_Accelerated ==
  /\ measuring.call.call = "advance"
  /\ measuring.call.result = OK
  /\ measuring.call.hooks = <<performAcceleration>>
  /\ measuring.c.iterations = 2

\* the k-th advance of the primary rank that passed the checks at its head
\* has returned, and no earlier one failed in syncTimestep (which would
\* leave values of that call in the channels)
C24_Returned(k) ==
  /\ k \in 1 .. Len(intra.rank[0].calls)
  /\ intra.rank[0].calls[k].result # syncTimestep
  /\ \A j \in 1 .. k - 1 : intra.rank[0].calls[j].result # ErrAmbiguous

\* some secondary rank passed another time step length to its k-th advance
C24_Differs(k) ==
  \E rank \in allSecondaryRanks(intra.size) :
    /\ Len(intra.rank[rank].calls) >= k
    /\ intra.rank[rank].calls[k].dt # intra.rank[0].calls[k].dt

\* C24 as stated: on several ranks, advance(dt) fails with an error whenever
\* some secondary rank passed to the same advance a dt that differs from the
\* dt of the primary rank.
C24_MismatchAlwaysFails ==
  \A k \in 1 .. MaxRankAdvances :
    C24_Returned(k) /\ C24_Differs(k) => intra.rank[0].calls[k].result = ErrAmbiguous

\* C24: in a build without NDEBUG, on several ranks, advance(dt) of the
\* primary rank fails in syncTimestep exactly when some secondary rank passed
\* a different dt to the same advance; advance of a secondary rank never
\* fails for that reason; in a build with NDEBUG no value is sent and no
\* advance fails for that reason.
C24_MismatchFailsInDebugBuild ==
  /\ \A k \in 1 .. MaxRankAdvances :
       C24_Returned(k) =>
         IF intra.debug /\ isParallel(intra.size)
           THEN intra.rank[0].calls[k].result = ErrAmbiguous <=> C24_Differs(k)
           ELSE intra.rank[0].calls[k].result # ErrAmbiguous
  /\ \A rank \in allSecondaryRanks(intra.size) :
       /\ \A k \in 1 .. Len(intra.rank[rank].calls) :
            intra.rank[rank].calls[k].result \in {OK, ErrOverrun}
       /\ ~intra.debug => intra.channel[rank] = <<>>

\* a build without NDEBUG on three ranks: rank 1 passed the dt of the
\* primary rank, rank 2 another one, and advance of the primary rank failed
C24_Witness ==
  /\ intra.debug
  /\ intra.size = 3
  /\ Len(intra.rank[0].calls) = 1
  /\ Len(intra.rank[1].calls) >= 1
  /\ Len(intra.rank[2].calls) >= 1
  /\ intra.rank[1].calls[1].dt = intra.rank[0].calls[1].dt
  /\ intra.rank[2].calls[1].dt # intra.rank[0].calls[1].dt
  /\ intra.rank[0].calls[1].result = ErrAmbiguous
  /\ intra.rank[0].pc = idle

\* a build with NDEBUG: two ranks advanced by different dt and both returned
\* without an error, at different times
C24_ReleaseBuildDiverges ==
  /\ ~intra.debug
  /\ intra.size = 2
  /\ Len(intra.rank[0].calls) = 1
  /\ Len(intra.rank[1].calls) = 1
  /\ intra.rank[0].calls[1] = [dt |-> 1, result |-> OK]
  /\ intra.rank[1].calls[1] = [dt |-> 2, result |-> OK]
  /\ intra.rank[0].c.time # intra.rank[1].c.time

C29_InsideWindow ==
  /\ last.call = "advance"
  /\ last.result = OK
  /\ cpl.computedTimeWindowPart > 0
  /\ ~cpl.isTimeWindowComplete

\* both participants have completed their run: neither is inside a call
\* and the coupling of neither is ongoing
C30_RunComplete ==
  \A p \in Participants :
    /\ solver[p].state = Initialized
    /\ ~isCouplingOngoing(scheme[p])

\* C30: over a complete serial coupled run every send of one participant is
\* matched by a receive of the other: once both participants have completed
\* their run, no sent message stays unreceived in any channel.
C30_NoMessageLeft ==
  C30_RunComplete => \A p \in Participants, channel \in Channels : m2n[p][channel] = <<>>

\* the same for the schemes that exchange no global data
C30_NoMessageLeftWithoutGlobalData ==
  C30_RunComplete /\ ~scheme[SecondParticipant].receivesGlobalData
    => \A p \in Participants, channel \in Channels : m2n[p][channel] = <<>>

\* a run of an implicit scheme without global data is complete
C30_ImplicitRunComplete ==
  /\ C30_RunComplete
  /\ ~scheme[SecondParticipant].receivesGlobalData
  /\ isImplicitCouplingScheme(scheme[SecondParticipant])

\* a run of an explicit scheme without global data is complete
C30_ExplicitRunComplete ==
  /\ C30_RunComplete
  /\ ~scheme[SecondParticipant].receivesGlobalData
  /\ ~isImplicitCouplingScheme(scheme[SecondParticipant])

\* the verdict and what was done with it agree in two observations
C31_SameVerdict(a, b) ==
  /\ a.converged = b.converged
  /\ a.complete = b.complete
  /\ a.rewound = b.rewound

\* C31: in every iteration of a serial implicit scheme both participants act
\* on the same convergence verdict: the i-th verdict the First acted on is
\* the i-th verdict the Second acted on, neither is more than one iteration
\* ahead, and with a verdict of not converged a participant rewinds and
\* requires ReadCheckpoint, with a verdict of converged it completes the window.
C31_BothActOnSameVerdict ==
  LET first == seen.verdicts[FirstParticipant]
      second == seen.verdicts[SecondParticipant]
  IN  /\ Len(first) <= Len(second) + 1
      /\ Len(second) <= Len(first) + 1
      /\ \A i \in 1 .. Len(first) :
           i <= Len(second) => C31_SameVerdict(first[i], second[i])
      /\ \A p \in Participants : \A i \in 1 .. Len(seen.verdicts[p]) :
           /\ seen.verdicts[p][i].complete = seen.verdicts[p][i].converged
           /\ seen.verdicts[p][i].rewound = ~seen.verdicts[p][i].converged

\* both participants repeated the first iteration and completed the window
\* with the second
C31_Witness ==
  /\ Len(seen.verdicts[FirstParticipant]) = 2
  /\ Len(seen.verdicts[SecondParticipant]) = 2
  /\ ~seen.verdicts[FirstParticipant][1].converged
  /\ seen.verdicts[FirstParticipant][1].rewound
  /\ seen.verdicts[SecondParticipant][1].rewound
  /\ seen.verdicts[FirstParticipant][2].complete
  /\ seen.verdicts[SecondParticipant][2].complete

\* each side's send-initial-data flag equals the other side's
\* receive-initial-data flag
C32_FlagsMatch ==
  \A p \in Participants :
    conn.part[p].sendsInitializedData = conn.part[partner(p)].receivesInitializedData

\* both participants have entered exchangeInitialData
C32_BothEntered ==
  \A p \in Participants : conn.part[p].pc \notin {Constructed, communicate}

\* both participants have left exchangeInitialData
C32_BothLeft ==
  \A p \in Participants :
    conn.part[p].pc \in {Initialized, closeCommunicationChannels, Finalized}

\* C32: when each side's send-initial-data flag equals the other side's
\* receive-initial-data flag, the exchange of the initial data completes:
\* once both participants have entered it, both leave it, and then every
\* initial data message that was sent has been received.
C32_InitialExchangeCompletes ==
  /\ (C32_FlagsMatch /\ C32_BothEntered) ~> C32_BothLeft
  /\ [](C32_FlagsMatch /\ C32_BothLeft
          => \A p \in Participants :
               conn.net[p][MeshChannel] = <<>> /\ conn.net[p][GlobalChannel] = <<>>)

\* both participants send and receive initial data and global data, and
\* both have completed the exchange
C32_Witness ==
  /\ \A p \in Participants :
       /\ conn.part[p].sendsInitializedData
       /\ conn.part[p].receivesInitializedData
       /\ conn.part[p].pc = Initialized
  /\ conn.global

\* with flags that do not match the First waits for initial data the
\* Second, which has left the exchange, never sends
C32_MismatchBlocks ==
  /\ conn.part[FirstParticipant].receivesInitializedData
  /\ ~conn.part[SecondParticipant].sendsInitializedData
  /\ conn.part[FirstParticipant].pc = exchangedFirstHalf
  /\ conn.part[SecondParticipant].pc = closeCommunicationChannels

\* both participants are inside initialize()
C33_BothCommunicate ==
  \A p \in Participants : conn.part[p].pc # Constructed

\* both participants have communicated all their meshes
C33_BothCommunicated ==
  \A p \in Participants : conn.part[p].pc \notin {Constructed, communicate}

\* C33: during computePartitions every participant communicates its used
\* meshes in ascending order of the mesh names, whatever the order of the
\* configuration; every mesh a participant receives is the mesh it waits
\* for; and once both participants are inside initialize() both get through
\* the communication of the meshes.
C33_MeshesCommunicatedInNameOrder ==
  /\ [](\A p \in Participants :
          /\ conn.part[p].pc = communicate
               => \A i, j \in DOMAIN conn.part[p].contexts :
                    i < j => conn.part[p].contexts[i] < conn.part[p].contexts[j]
          /\ \A k \in DOMAIN conn.part[p].got :
               conn.part[p].got[k].waited = conn.part[p].got[k].came)
  /\ C33_BothCommunicate ~> C33_BothCommunicated

\* two meshes exchanged in opposite directions: both participants have
\* communicated them, and the Second has pulled its provided mesh up front
C33_Witness ==
  /\ conn.provides[1] = FirstParticipant
  /\ conn.provides[2] = SecondParticipant
  /\ conn.part[FirstParticipant].got = <<[waited |-> 2, came |-> 2]>>
  /\ conn.part[SecondParticipant].got = <<[waited |-> 1, came |-> 1]>>
  /\ conn.part[FirstParticipant].pc = exchangeInitialData
  /\ conn.part[SecondParticipant].pc = exchangeInitialData
  /\ ~conn.usesTwoLevelInitialization
  /\ conn.part[SecondParticipant].contexts = <<2, 1>>

\* both participants have called finalize() in state Initialized
C34_BothFinalize ==
  \A p \in Participants : conn.part[p].pc \in {closeCommunicationChannels, Finalized}

\* C34: when both participants of a connection finalize from state
\* Initialized the close handshake terminates: both reach Finalized; a
\* participant has closed the connection only after its half of the
\* handshake (the requesting side has received the pong that answers its
\* ping, the other side has received the ping and sent its pong); and no
\* message of the handshake is left over.
C34_CloseHandshakeTerminates ==
  /\ C34_BothFinalize ~> (\A p \in Participants : conn.part[p].pc = Finalized)
  /\ [](\A p \in Participants :
          /\ conn.part[p].closed <=> conn.part[p].pc = Finalized
          /\ conn.part[p].closed
               => /\ Len(conn.part[p].got) > 0
                  /\ conn.part[p].got[Len(conn.part[p].got)] =
                       IF conn.part[p].isRequesting
                         THEN [waited |-> pong, came |-> pong]
                         ELSE [waited |-> ping, came |-> ping]
                  /\ ~conn.part[p].isRequesting
                       => \/ conn.part[partner(p)].closed
                          \/ conn.net[partner(p)][PrimaryChannel]
                               = <<Message(PrimaryChannel, "close", pong)>>)
  /\ []((\A p \in Participants : conn.part[p].closed)
          => \A p \in Participants : conn.net[p][PrimaryChannel] = <<>>)

\* both participants have closed the connection, the First as the
\* requesting side
C34_Witness ==
  /\ \A p \in Participants : conn.part[p].pc = Finalized /\ conn.part[p].closed
  /\ conn.part[FirstParticipant].isRequesting
  /\ \A p \in Participants : conn.net[p][PrimaryChannel] = <<>>

\* the accepting side waits in finalize() for the ping of a participant
\* that has not called finalize() yet
C34_WaitsForPing ==
  /\ ~conn.part[SecondParticipant].isRequesting
  /\ conn.part[SecondParticipant].pc = closeCommunicationChannels
  /\ conn.part[FirstParticipant].pc = Initialized

\* C35: whenever an advance completes a time window, the waveform of every
\* read data context and of every global data context is moved to the next
\* window exactly once, and when an advance does not complete a window no
\* waveform is moved.
C35_WaveformsMovedOncePerWindow ==
  last.call = "advance" /\ last.result = OK
    => hist.moved = IF cpl.isTimeWindowComplete
                      THEN [read |-> 1, global |-> 1]
                      ELSE [read |-> 0, global |-> 0]

\* the same for the read data contexts alone, whose waveforms advance()
\* does move
C35_ReadWaveformsMovedOncePerWindow ==
  last.call = "advance" /\ last.result = OK
    => hist.moved.read = IF cpl.isTimeWindowComplete THEN 1 ELSE 0

\* an advance has completed a time window
C35_WindowCompleted ==
  /\ last.call = "advance"
  /\ last.result = OK
  /\ cpl.isTimeWindowComplete
  /\ hist.moved.read = 1


----------------------------------------------------------------------------
(* Shared coupling data (claim C36) *)

\* the entries of `map` are the instances the table `all` holds for their ids
SameInstances(map, all) == \A id \in DataIDs : contained(id, map) => map[id] = all[id]

\* C36: for each data id the send map, the receive map and the table of all
\* data hold the same instance, for mesh data and for global data alike
C36_OneInstancePerDataId ==
  /\ SameInstances(couplingData.sendData, couplingData.allData)
  /\ SameInstances(couplingData.receiveData, couplingData.allData)
  /\ SameInstances(couplingData.sendGlobalData, couplingData.allGlobalData)
  /\ SameInstances(couplingData.receiveGlobalData, couplingData.allGlobalData)

\* C36, the part that holds: mesh data in both maps and global data in the
\* send map are the instances of the tables of all data
C36_SharedExceptReceivedGlobalData ==
  /\ SameInstances(couplingData.sendData, couplingData.allData)
  /\ SameInstances(couplingData.receiveData, couplingData.allData)
  /\ SameInstances(couplingData.sendGlobalData, couplingData.allGlobalData)

\* C36: a global data id is never received through the instance of the table
C36_ReceivedGlobalDataIsCopy ==
  \A id \in DataIDs :
    contained(id, couplingData.receiveGlobalData)
      => couplingData.receiveGlobalData[id] # couplingData.allGlobalData[id]

\* C36: one data id is in the send map and in the receive map, mesh data and
\* global data
C36_SentAndReceived ==
  \E id \in DataIDs :
    /\ contained(id, couplingData.sendData) /\ contained(id, couplingData.receiveData)
    /\ contained(id, couplingData.sendGlobalData)
    /\ contained(id, couplingData.receiveGlobalData)


----------------------------------------------------------------------------
(* Meshes are locked again by advance (claim C37) *)

\* C37: after an advance that returned without an error every mesh is locked,
\* and a mesh that the advance locked again cannot be modified unless
\* resetMesh is called on it once more
C37_AllLockedAfterAdvance ==
  /\ last.call = "advance" /\ last.result = OK => \A m \in Meshes : meshLock[m]
  /\ last.call = "setMeshVertex" /\ last.from = Initialized /\ last.arg \in hist.relocked
       => last.result = ErrLocked

\* an advance returned that found a mesh unlocked by resetMesh
C37_Witness ==
  /\ last.call = "advance"
  /\ last.result = OK
  /\ hist.relocked # {}
  /\ \A m \in Meshes : meshLock[m]

\* the modification of a mesh that an advance locked again was refused
C37_ModificationRefused ==
  /\ last.call = "setMeshVertex"
  /\ last.from = Initialized
  /\ last.arg \in hist.relocked
  /\ last.result = ErrLocked


----------------------------------------------------------------------------
(* An advance inside a time window (claim C38) *)

\* participant p calls advance(dt) with the coupling ongoing, no required
\* action missing, a window size set and dt smaller than the remainder of
\* the window by more than the tolerance
C38_AdvanceInsideWindow(p, dt) ==
  /\ advanceOf(p, dt)
  /\ isCouplingOngoing(scheme[p])
  /\ missingActions(scheme[p]) = {}
  /\ hasTimeWindowSize(scheme[p])
  /\ greater(getThisTimeWindowRemainder(scheme[p]), dt, Eps)

\* C38: an advance(dt) that does not reach the end of the time window returns
\* without sending or receiving a message, leaves the window counter as it
\* was, and leaves isTimeWindowComplete and hasDataBeenReceived false
C38_NothingExchangedInsideWindow ==
  [][\A p \in Participants, dt \in SerialDts :
       C38_AdvanceInsideWindow(p, dt)
         => /\ seen'.call = Call(p, "advance", dt, OK, NotSampled, 0)
            /\ solver'[p].state = Initialized
            /\ m2n' = m2n
            /\ scheme'[p].timeWindows = scheme[p].timeWindows
            /\ ~scheme'[p].isTimeWindowComplete
            /\ ~scheme'[p].hasDataBeenReceived]_vars

\* a participant has advanced into its second time window without ending it:
\* the advance before had completed the first window and received data
C38_Witness ==
  \E p \in Participants :
    /\ seen.call = Call(p, "advance", 1, OK, NotSampled, 0)
    /\ solver[p].state = Initialized
    /\ hasTimeWindowSize(scheme[p])
    /\ scheme[p].timeWindows = 2
    /\ scheme[p].computedTimeWindowPart = 1
    /\ ~scheme[p].isTimeWindowComplete
    /\ ~scheme[p].hasDataBeenReceived


----------------------------------------------------------------------------
(* The checkpoint actions exclude each other (claim C39) *)

BothCheckpoints(c) == {ReadCheckpoint, WriteCheckpoint} \subseteq c.requiredActions

\* C39: ReadCheckpoint and WriteCheckpoint are never both in the set of
\* required actions of the coupling scheme
C39_NeverBothCheckpoints == ~BothCheckpoints(cpl)

\* an implicit scheme that required WriteCheckpoint in initialize() requires
\* ReadCheckpoint, and nothing else, after an iteration that did not converge
C39_Witness ==
  /\ state = Initialized
  /\ last.call = "advance"
  /\ last.result = OK
  /\ isImplicitCouplingScheme(cpl)
  /\ cpl.requiredActions = {ReadCheckpoint}

\* C39 for the two participants of a serial scheme
C39_NeverBothCheckpointsOfParticipants ==
  \A p \in Participants : ~BothCheckpoints(scheme[p])

\* an implicit scheme requires WriteCheckpoint, and nothing else, after an
\* advance that completed a time window
C39_WriteAfterRead ==
  /\ state = Initialized
  /\ last.call = "advance"
  /\ last.result = OK
  /\ cpl.requiredActions = {WriteCheckpoint}
  /\ hist.windowStart > 0


----------------------------------------------------------------------------
(* Data is marked as received once per exchange (claim C40) *)

\* the advance that returned last ended a time window (or an iteration of
\* one): only then is the computed part of the window back at zero
EndedWindow(c) == c.computedTimeWindowPart = 0

\* C40: after an advance that ended a time window and left the coupling
\* ongoing hasDataBeenReceived is true, and checkDataHasBeenReceived is never
\* called while the flag is set
C40_ReceivedOncePerWindowEnd ==
  /\ cpl.receivedOnce
  /\ state = Initialized /\ last.call = "advance" /\ last.result = OK
       /\ EndedWindow(cpl) /\ isCouplingOngoing(cpl)
       => cpl.hasDataBeenReceived

\* an advance ended a time window with the coupling still ongoing
C40_Witness ==
  /\ state = Initialized
  /\ last.call = "advance"
  /\ last.result = OK
  /\ EndedWindow(cpl)
  /\ isCouplingOngoing(cpl)
  /\ cpl.hasDataBeenReceived
  /\ cpl.receivedOnce

\* C40 for the two participants of a serial scheme
C40_ReceivedOncePerWindowEndOfParticipants ==
  \A p \in Participants :
    /\ scheme[p].receivedOnce
    /\ solver[p].state = Initialized /\ seen.call.by = p /\ seen.call.call = "advance"
         /\ seen.call.result = OK /\ EndedWindow(scheme[p]) /\ isCouplingOngoing(scheme[p])
         => scheme[p].hasDataBeenReceived

\* the second participant ended the last time window: it received nothing
C40_NothingReceivedAtTheEnd ==
  /\ state = Initialized
  /\ last.call = "advance"
  /\ last.result = OK
  /\ EndedWindow(cpl)
  /\ ~cpl.doesFirstStep
  /\ ~isCouplingOngoing(cpl)
  /\ ~cpl.hasDataBeenReceived

====
